---- MODULE Spec2Model ----
(***************************************************************************)
(* Model of diabet_tools: the pharmacokinetic kernels (active_insulin.py,  *)
(* fractional_absorption.py), the estimators of individualized_constants.py *)
(* and the event-superposition engine, period aggregation and period-of-   *)
(* day functions of timeseries_calc.py.                                    *)
(*                                                                         *)
(* Numbers.  Python floats are carried as fixed-point integers:            *)
(*   - a kernel fraction f is the integer f * SCALE;                       *)
(*   - times are whole minutes (the source's hours are minutes / 60), so   *)
(*     `0 < time_elapsed <= 6` reads  0 < dt /\ dt <= 6 * 60;              *)
(*   - rate constants are hundredths (3.0 /h is 300, 0.01 /min is 1);      *)
(*   - float NaN is the sentinel NaN.                                      *)
(***************************************************************************)
EXTENDS Integers, Sequences, FiniteSets, TLC

VARIABLES kcall, kret, data_df, annotated, rerun, period_df, grouped, pcall

vars == <<kcall, kret, data_df, annotated, rerun, period_df, grouped, pcall>>

kernelVars == <<kcall, kret>>

engineVars == <<data_df, annotated, rerun, period_df, grouped, pcall>>

(***************************************************************************)
(* Float arithmetic                                                        *)
(***************************************************************************)
SCALE == 10000

NaN == -1000000

\* exp(-1) * SCALE
EXP_M1 == 3679

IsNaN(v) == v = NaN

\* pandas NaT, the missing value of a datetime column
NaT == NaN

\* a > b on timestamps: every comparison with NaT is False
After(a, b) == a # NaT /\ b # NaT /\ a > b

Max(a, b) == IF a >= b THEN a ELSE b

\* exp(-n) * SCALE for a natural n (0 once it underflows the fixed-point unit)
RECURSIVE ExpNegInt(_)
ExpNegInt(n) ==
    IF n = 0 THEN SCALE
    ELSE IF n >= 10 THEN 0
    ELSE (ExpNegInt(n - 1) * EXP_M1) \div SCALE

\* the n-th and later terms of the series of exp(-r/SCALE), r in 0..SCALE-1:
\* term is (r/SCALE)^(n-1) / (n-1)! * SCALE, sign is +1 or -1
RECURSIVE ExpSeries(_, _, _, _)
ExpSeries(r, n, term, sign) ==
    IF term = 0 THEN 0
    ELSE sign * term + ExpSeries(r, n + 1, (term * r) \div (n * SCALE), -sign)

\* np.exp(-x) * SCALE, for x = xs / SCALE >= 0
NpExpNeg(xs) ==
    (ExpNegInt(xs \div SCALE) * ExpSeries(xs % SCALE, 1, SCALE, 1)) \div SCALE

(***************************************************************************)
(* active_insulin.py                                                       *)
(***************************************************************************)
K_ABS_NOVORAPID == 300
K_ELIM_NOVORAPID == 80
K_ABS_TRESIBA == 30
K_ELIM_TRESIBA == 3

Return(v) == [raised |-> FALSE, value |-> v]

ValueError == [raised |-> TRUE, value |-> 0]

\* k * t * SCALE for k in hundredths per hour and t in minutes
RateTimesHours(k, t) == (k * t * 5) \div 3

InsulinKinds == {"novorapid", "tresiba"}

k_abs_of(type) == IF type = "novorapid" THEN K_ABS_NOVORAPID ELSE K_ABS_TRESIBA

k_elim_of(type) == IF type = "novorapid" THEN K_ELIM_NOVORAPID ELSE K_ELIM_TRESIBA

\* active_insulin(t, type): per-hour active fraction * SCALE
active_insulin(t, type) ==
    IF type \notin InsulinKinds THEN ValueError
    ELSE IF t <= 0 THEN Return(0)
    ELSE LET k_abs == k_abs_of(type)
             k_elim == k_elim_of(type)
             e_elim == NpExpNeg(RateTimesHours(k_elim, t))
             e_abs == NpExpNeg(RateTimesHours(k_abs, t))
             v == (k_elim * k_abs * (e_elim - e_abs)) \div ((k_abs - k_elim) * 100)
         IN Return(Max(0, v))

\* the early return taken before the kind is looked at
insulin_on_board_unchecked(t, type) ==
    IF t <= 0 THEN Return(0)
    ELSE IF type \notin InsulinKinds THEN ValueError
    ELSE LET k_abs == k_abs_of(type)
             k_elim == k_elim_of(type)
             e_elim == NpExpNeg(RateTimesHours(k_elim, t))
             e_abs == NpExpNeg(RateTimesHours(k_abs, t))
             v == (k_abs * e_elim - k_elim * e_abs) \div (k_abs - k_elim)
         IN Return(Max(0, v))

\* insulin_on_board(t, type): on-board fraction * SCALE
insulin_on_board(t, type) ==
    IF type \notin InsulinKinds THEN ValueError
    ELSE IF t <= 0 THEN Return(0)
    ELSE LET k_abs == k_abs_of(type)
             k_elim == k_elim_of(type)
             e_elim == NpExpNeg(RateTimesHours(k_elim, t))
             e_abs == NpExpNeg(RateTimesHours(k_abs, t))
             v == (k_abs * e_elim - k_elim * e_abs) \div (k_abs - k_elim)
         IN Return(Max(0, v))

(***************************************************************************)
(* fractional_absorption.py                                                *)
(***************************************************************************)
F_MAX == 1
K_A == 1
LAG_TIME == 0

\* fractional_absorption(time) with the default k_a, f_max, lag_time;
\* time in minutes, result * SCALE
fractional_absorption(time) ==
    LET effective_time == Max(time - LAG_TIME, 0)
        fraction == F_MAX * (SCALE - NpExpNeg(K_A * effective_time * 100))
    IN IF time < LAG_TIME THEN 0 ELSE fraction

\* the whole mass on board at time 0
carbs_on_board_full_at_zero(time, total_carbs) ==
    LET fraction_unabsorbed == F_MAX * SCALE - fractional_absorption(time)
    IN total_carbs * fraction_unabsorbed

\* carbs_on_board(time, total_carbs): grams * SCALE; the source takes time
\* in hours and passes time * 60 on, here time is already in minutes
carbs_on_board(time, total_carbs) ==
    IF time = 0 THEN 0
    ELSE LET fraction_unabsorbed == F_MAX * SCALE - fractional_absorption(time)
         IN total_carbs * fraction_unabsorbed

(***************************************************************************)
(* pandas DataFrame: a set of column names and a sequence of rows, each    *)
(* row a function from the column names to numbers                         *)
(***************************************************************************)
NRows(df) == Len(df.rows)

NoFrame == [columns |-> {}, rows |-> <<>>]

NoCall == [fn |-> "none", t |-> 0, type |-> "novorapid", total_carbs |-> 0]

\* df[c] = values (one value per row): adds the column or overwrites it
SetColumn(df, c, values) ==
    [columns |-> df.columns \cup {c},
     rows |-> [i \in 1..NRows(df) |->
                 [k \in df.columns \cup {c} |->
                     IF k = c THEN values[i] ELSE df.rows[i][k]]]]

\* a column holding v in every row
Constant(df, v) == [i \in 1..NRows(df) |-> v]

\* df.loc[i, c] += v
AddAt(rows, i, c, v) == [rows EXCEPT ![i][c] = @ + v]

Fillna0(v) == IF IsNaN(v) THEN 0 ELSE v

\* a sum in which one NaN makes the result NaN (pandas `a + b`)
RECURSIVE SumPropagateNaN(_, _)
SumPropagateNaN(row, cols) ==
    IF cols = <<>> THEN 0
    ELSE LET rest == SumPropagateNaN(row, Tail(cols))
         IN IF IsNaN(row[Head(cols)]) \/ IsNaN(rest) THEN NaN
            ELSE row[Head(cols)] + rest

\* the columns added with `+`, without fillna(0)
PlusSum(row, cols) == SumPropagateNaN(row, cols)

\* df[cols].fillna(0).sum(axis=1) for one row
RECURSIVE FillnaSum(_, _)
FillnaSum(row, cols) ==
    IF cols = <<>> THEN 0
    ELSE Fillna0(row[Head(cols)]) + FillnaSum(row, Tail(cols))

\* r put into the time-sorted sequence s, behind the rows that are not later;
\* rows without a timestamp go last (na_position='last')
RECURSIVE InsertByTime(_, _)
InsertByTime(r, s) ==
    IF s = <<>> THEN <<r>>
    ELSE IF \/ r.DateTime_rounded = NaT
            \/ /\ Head(s).DateTime_rounded # NaT
               /\ Head(s).DateTime_rounded <= r.DateTime_rounded
         THEN <<Head(s)>> \o InsertByTime(r, Tail(s))
         ELSE <<r>> \o s

RECURSIVE SortedPrefix(_, _)
SortedPrefix(rows, n) ==
    IF n = 0 THEN <<>> ELSE InsertByTime(rows[n], SortedPrefix(rows, n - 1))

\* only the timestamps put in order, the other columns left in place
SortValuesTimesOnly(df) ==
    LET sorted == SortedPrefix(df.rows, NRows(df))
    IN [df EXCEPT !.rows =
           [i \in 1..NRows(df) |->
               [df.rows[i] EXCEPT !.DateTime_rounded = sorted[i].DateTime_rounded]]]

\* df.sort_values('DateTime_rounded').reset_index(drop=True)
SortValues(df) == [df EXCEPT !.rows = SortedPrefix(df.rows, NRows(df))]

\* the positions of the rows with df[c] > 0, ascending (the row snapshot the
\* passes iterate over)
RECURSIVE EventRowsFrom(_, _, _)
EventRowsFrom(df, c, i) ==
    IF i > NRows(df) THEN <<>>
    ELSE IF df.rows[i][c] > 0 THEN <<i>> \o EventRowsFrom(df, c, i + 1)
    ELSE EventRowsFrom(df, c, i + 1)

EventRows(df, c) == EventRowsFrom(df, c, 1)

(***************************************************************************)
(* timeseries_calc.py: calculate_active_insulin_and_carbs_timeseries       *)
(***************************************************************************)
NOVORAPID_WINDOW_HOURS == 6

TRESIBA_WINDOW_HOURS == 96

bolus_columns == <<"carb_bolus", "correction_bolus", "extended_bolus">>

carb_columns == <<"carbs">>

basal_columns == <<"basal">>

\* df[cols].fillna(0).sum(axis=1)
TotalOf(df, cols) == [i \in 1..NRows(df) |-> FillnaSum(df.rows[i], cols)]

\* the three total columns, NaN counted as zero
WithTotals(df) ==
    LET b == SetColumn(df, "total_bolus", TotalOf(df, bolus_columns))
        c == SetColumn(b, "total_carbs", TotalOf(df, carb_columns))
    IN SetColumn(c, "total_basal", TotalOf(df, basal_columns))

\* a state column that already exists keeps its values
InitStateColumnsKept(df) ==
    LET Keep(d, c) == IF c \in d.columns THEN d ELSE SetColumn(d, c, Constant(d, 0))
    IN Keep(Keep(Keep(df, "IOB_novorapid"), "IOB_tresiba"), "COB")

\* df['IOB_novorapid'] = 0.0; df['IOB_tresiba'] = 0.0; df['COB'] = 0.0
InitStateColumns(df) ==
    LET a == SetColumn(df, "IOB_novorapid", Constant(df, 0))
        b == SetColumn(a, "IOB_tresiba", Constant(a, 0))
    IN SetColumn(b, "COB", Constant(b, 0))

\* the window test of the bolus loop with the end of the window excluded
ApplyBolusEventOpenWindow(df, df_idx) ==
    LET current_time == df.rows[df_idx].DateTime_rounded
        current_bolus == df.rows[df_idx].total_bolus
        new_bolus_effect == insulin_on_board(0, "novorapid").value * current_bolus
        own == AddAt(df.rows, df_idx, "IOB_novorapid", new_bolus_effect)
        time_elapsed(j) == own[j].DateTime_rounded - current_time
    IN [df EXCEPT !.rows =
           [j \in 1..Len(own) |->
               IF /\ After(own[j].DateTime_rounded, current_time)
                  /\ 0 < time_elapsed(j)
                  /\ time_elapsed(j) < NOVORAPID_WINDOW_HOURS * 60
               THEN [own[j] EXCEPT !.IOB_novorapid = @ +
                        insulin_on_board(time_elapsed(j), "novorapid").value * current_bolus]
               ELSE own[j]]]

\* the bolus loop assigning to the future rows (`=` for `+=`)
ApplyBolusEventAssign(df, df_idx) ==
    LET current_time == df.rows[df_idx].DateTime_rounded
        current_bolus == df.rows[df_idx].total_bolus
        new_bolus_effect == insulin_on_board(0, "novorapid").value * current_bolus
        own == AddAt(df.rows, df_idx, "IOB_novorapid", new_bolus_effect)
        time_elapsed(j) == own[j].DateTime_rounded - current_time
    IN [df EXCEPT !.rows =
           [j \in 1..Len(own) |->
               IF /\ After(own[j].DateTime_rounded, current_time)
                  /\ 0 < time_elapsed(j)
                  /\ time_elapsed(j) <= NOVORAPID_WINDOW_HOURS * 60
               THEN [own[j] EXCEPT !.IOB_novorapid =
                        insulin_on_board(time_elapsed(j), "novorapid").value * current_bolus]
               ELSE own[j]]]

\* one iteration of the loop over bolus_rows: the event's own row, then the
\* future rows inside the 6-hour window
ApplyBolusEvent(df, df_idx) ==
    LET current_time == df.rows[df_idx].DateTime_rounded
        current_bolus == df.rows[df_idx].total_bolus
        new_bolus_effect == insulin_on_board(0, "novorapid").value * current_bolus
        own == AddAt(df.rows, df_idx, "IOB_novorapid", new_bolus_effect)
        time_elapsed(j) == own[j].DateTime_rounded - current_time
    IN [df EXCEPT !.rows =
           [j \in 1..Len(own) |->
               IF /\ After(own[j].DateTime_rounded, current_time)
                  /\ 0 < time_elapsed(j)
                  /\ time_elapsed(j) <= NOVORAPID_WINDOW_HOURS * 60
               THEN [own[j] EXCEPT !.IOB_novorapid = @ +
                        insulin_on_board(time_elapsed(j), "novorapid").value * current_bolus]
               ELSE own[j]]]

\* df['total_active_insulin'] = df['IOB_novorapid'] + df['IOB_tresiba']
TotalActiveInsulin(df) ==
    SetColumn(df, "total_active_insulin",
              [i \in 1..NRows(df) |-> df.rows[i].IOB_novorapid + df.rows[i].IOB_tresiba])

\* the basal loop propagating, with the dose, what is already active at the
\* event's own row
ApplyBasalEventCompounding(df, df_idx) ==
    LET current_time == df.rows[df_idx].DateTime_rounded
        current_basal == df.rows[df_idx].total_basal
        current_active == df.rows[df_idx].IOB_tresiba
        new_basal_effect == insulin_on_board(0, "tresiba").value * current_basal
        own == AddAt(df.rows, df_idx, "IOB_tresiba", new_basal_effect)
        time_elapsed(j) == own[j].DateTime_rounded - current_time
    IN TotalActiveInsulin(
           [df EXCEPT !.rows =
               [j \in 1..Len(own) |->
                   IF /\ After(own[j].DateTime_rounded, current_time)
                      /\ 0 < time_elapsed(j)
                      /\ time_elapsed(j) <= TRESIBA_WINDOW_HOURS * 60
                   THEN [own[j] EXCEPT !.IOB_tresiba = @ +
                            insulin_on_board(time_elapsed(j), "tresiba").value * current_basal
                            + (insulin_on_board(time_elapsed(j), "tresiba").value
                                  * current_active) \div SCALE]
                   ELSE own[j]]])

\* the basal loop without the test of the 96-hour window
ApplyBasalEventNoWindow(df, df_idx) ==
    LET current_time == df.rows[df_idx].DateTime_rounded
        current_basal == df.rows[df_idx].total_basal
        new_basal_effect == insulin_on_board(0, "tresiba").value * current_basal
        own == AddAt(df.rows, df_idx, "IOB_tresiba", new_basal_effect)
        time_elapsed(j) == own[j].DateTime_rounded - current_time
    IN TotalActiveInsulin(
           [df EXCEPT !.rows =
               [j \in 1..Len(own) |->
                   IF After(own[j].DateTime_rounded, current_time)
                   THEN [own[j] EXCEPT !.IOB_tresiba = @ +
                            insulin_on_board(time_elapsed(j), "tresiba").value * current_basal]
                   ELSE own[j]]])

\* one iteration of the loop over basal_rows: the event's own row, the
\* future rows inside the 96-hour window, then the total column
ApplyBasalEvent(df, df_idx) ==
    LET current_time == df.rows[df_idx].DateTime_rounded
        current_basal == df.rows[df_idx].total_basal
        new_basal_effect == insulin_on_board(0, "tresiba").value * current_basal
        own == AddAt(df.rows, df_idx, "IOB_tresiba", new_basal_effect)
        time_elapsed(j) == own[j].DateTime_rounded - current_time
    IN TotalActiveInsulin(
           [df EXCEPT !.rows =
               [j \in 1..Len(own) |->
                   IF /\ After(own[j].DateTime_rounded, current_time)
                      /\ 0 < time_elapsed(j)
                      /\ time_elapsed(j) <= TRESIBA_WINDOW_HOURS * 60
                   THEN [own[j] EXCEPT !.IOB_tresiba = @ +
                            insulin_on_board(time_elapsed(j), "tresiba").value * current_basal]
                   ELSE own[j]]])

\* the carb loop over every other row, the earlier ones too
ApplyCarbEventAllRows(df, df_idx) ==
    LET current_time == df.rows[df_idx].DateTime_rounded
        current_carb == df.rows[df_idx].total_carbs
        new_carbs == carbs_on_board(0, current_carb)
        own == AddAt(df.rows, df_idx, "COB", new_carbs)
        time_elapsed(j) == own[j].DateTime_rounded - current_time
    IN [df EXCEPT !.rows =
           [j \in 1..Len(own) |->
               IF j # df_idx
               THEN [own[j] EXCEPT !.COB = @ + carbs_on_board(time_elapsed(j), current_carb)]
               ELSE own[j]]]

\* one iteration of the loop over carb_rows: the event's own row, then every
\* future row (no window)
ApplyCarbEvent(df, df_idx) ==
    LET current_time == df.rows[df_idx].DateTime_rounded
        current_carb == df.rows[df_idx].total_carbs
        new_carbs == carbs_on_board(0, current_carb)
        own == AddAt(df.rows, df_idx, "COB", new_carbs)
        time_elapsed(j) == own[j].DateTime_rounded - current_time
    IN [df EXCEPT !.rows =
           [j \in 1..Len(own) |->
               IF After(own[j].DateTime_rounded, current_time)
               THEN [own[j] EXCEPT !.COB = @ + carbs_on_board(time_elapsed(j), current_carb)]
               ELSE own[j]]]

\* the loop over bolus_rows, a snapshot of the event rows, from its k-th entry
RECURSIVE BolusLoop(_, _, _)
BolusLoop(df, bolus_rows, k) ==
    IF k > Len(bolus_rows) THEN df
    ELSE BolusLoop(ApplyBolusEvent(df, bolus_rows[k]), bolus_rows, k + 1)

RECURSIVE BasalLoop(_, _, _)
BasalLoop(df, basal_rows, k) ==
    IF k > Len(basal_rows) THEN df
    ELSE BasalLoop(ApplyBasalEvent(df, basal_rows[k]), basal_rows, k + 1)

RECURSIVE CarbLoop(_, _, _)
CarbLoop(df, carb_rows, k) ==
    IF k > Len(carb_rows) THEN df
    ELSE CarbLoop(ApplyCarbEvent(df, carb_rows[k]), carb_rows, k + 1)

BolusPass(df) == BolusLoop(df, EventRows(df, "total_bolus"), 1)

BasalPass(df) == BasalLoop(df, EventRows(df, "total_basal"), 1)

CarbPass(df) == CarbLoop(df, EventRows(df, "total_carbs"), 1)

\* the value the function returns; data_df itself is only read (df is a copy)
calculate_active_insulin_and_carbs_timeseries(input) ==
    LET df == input
        totals == WithTotals(df)
        sorted == SortValues(totals)
        zeroed == InitStateColumns(sorted)
    IN CarbPass(BasalPass(BolusPass(zeroed)))

(***************************************************************************)
(* individualized_constants.py                                             *)
(* Units: heights in cm, weights in kg, ages in years, all whole numbers;  *)
(* clearance in 1/FINE L/min, so that the height-based formula is exact;   *)
(* volume in 1/SCALE L.  An argument is a number, None, or Omitted (the    *)
(* caller did not pass it and Python binds the default).                   *)
(***************************************************************************)
FINE == 10000000

None == -1

Omitted == -2

TypeError == [raised |-> TRUE, value |-> 0, type |-> "TypeError"]

Min(a, b) == IF a <= b THEN a ELSE b

\* np.clip(v, lo, hi)
Clip(v, lo, hi) == Min(Max(v, lo), hi)

\* the value a parameter is bound to
Bind(arg, default) == IF arg = Omitted THEN default ELSE arg

\* str.lower() on the spellings of the sex argument
Lower(sex) ==
    CASE sex \in {"Female", "FEMALE", "female"} -> "female"
      [] sex \in {"Male", "male"} -> "male"
      [] OTHER -> sex

\* weight_kg ** 0.425, times 1000
WeightPow425(weight_kg) ==
    CASE weight_kg = 10 -> 2661
      [] weight_kg = 53 -> 5405
      [] weight_kg = 200 -> 9505

\* (weight_kg / 70.0) ** 0.75, times 1000
WeightRatioPow75(weight_kg) ==
    CASE weight_kg = 10 -> 232
      [] weight_kg = 53 -> 812
      [] weight_kg = 200 -> 2198

\* height_cm ** 0.725, times 100
HeightPow725(height_cm) ==
    CASE height_cm = 50 -> 1705
      [] height_cm = 170 -> 4141
      [] height_cm = 200 -> 4659

\* (height_cm / 170.0) ** 0.25, times 1000
HeightRatioPow25(height_cm) ==
    CASE height_cm = 50 -> 736
      [] height_cm = 170 -> 1000
      [] height_cm = 200 -> 1041

\* (height_cm / 170.0) ** 0.15, times 1000
HeightRatioPow15(height_cm) ==
    CASE height_cm = 50 -> 832
      [] height_cm = 170 -> 1000
      [] height_cm = 200 -> 1025

\* Dubois: 0.007184 * weight^0.425 * height^0.725, in 1/SCALE m^2
BodySurfaceArea(weight_kg, height_cm) ==
    (((7184 * WeightPow425(weight_kg)) \div 1000) * HeightPow725(height_cm)) \div 10000

\* the branch on method of calculate_insulin_clearance: the clearance before
\* the age adjustment, or the exception raised on the way
ClearanceOfMethod(height_cm, weight_kg, sex, method) ==
    CASE method = "height_based" ->
            IF height_cm = None THEN TypeError
            ELSE LET base_clearance == 12 * (FINE \div 10)
                     clearance == base_clearance
                                    + (4 * (base_clearance \div 1000)) * (height_cm - 170)
                 IN Return(IF Lower(sex) = "female"
                           THEN (clearance * 85) \div 100 ELSE clearance)
      [] method = "bsa" ->
            IF weight_kg = None THEN ValueError
            ELSE IF height_cm = None THEN TypeError
            ELSE Return(65 * (BodySurfaceArea(weight_kg, height_cm) * 10))
      [] method = "allometric" ->
            IF weight_kg = None THEN ValueError
            ELSE IF height_cm = None THEN TypeError
            ELSE Return(15 * WeightRatioPow75(weight_kg) * HeightRatioPow25(height_cm))
      [] OTHER -> ValueError

\* clearance *= max(1 - 0.01 * (age_years - 40), 0.7) when age_years > 40
ClearanceAgeAdjustment(clearance, age_years) ==
    IF age_years # None /\ age_years > 40
    THEN (clearance \div 100) * Max(100 - (age_years - 40), 70)
    ELSE clearance

\* the bounds clipped before the age adjustment
calculate_insulin_clearance_clip_first(height_arg, weight_arg, age_arg, sex, method) ==
    LET height_cm == Bind(height_arg, 170)
        weight_kg == Bind(weight_arg, 53)
        age_years == Bind(age_arg, 10)
        before_age == ClearanceOfMethod(height_cm, weight_kg, sex, method)
    IN IF before_age.raised THEN before_age
       ELSE Return(ClearanceAgeAdjustment(
                Clip(before_age.value, FINE \div 2, 3 * FINE), age_years))

\* the female factor applied only to the spelling 'female'
calculate_insulin_clearance_case_sensitive(height_arg, weight_arg, age_arg, sex, method) ==
    LET height_cm == Bind(height_arg, 170)
        weight_kg == Bind(weight_arg, 53)
        age_years == Bind(age_arg, 10)
        exact == IF sex = "female" THEN "female" ELSE "male"
        before_age == ClearanceOfMethod(height_cm, weight_kg, exact, method)
    IN IF before_age.raised THEN before_age
       ELSE Return(Clip(ClearanceAgeAdjustment(before_age.value, age_years),
                        FINE \div 2, 3 * FINE))

calculate_insulin_clearance(height_arg, weight_arg, age_arg, sex, method) ==
    LET height_cm == Bind(height_arg, 170)
        weight_kg == Bind(weight_arg, 53)
        age_years == Bind(age_arg, 10)
        before_age == ClearanceOfMethod(height_cm, weight_kg, sex, method)
    IN IF before_age.raised THEN before_age
       ELSE Return(Clip(ClearanceAgeAdjustment(before_age.value, age_years),
                        FINE \div 2, 3 * FINE))

(***************************************************************************)
(* insulin.py: its own calculate_insulin_clearance, with height_cm         *)
(* required and weight_kg and age_years defaulting to None                 *)
(***************************************************************************)
\* the age factor floored at 0.8
insulin_calculate_insulin_clearance_floor_80(height_arg, weight_arg, age_arg, sex, method) ==
    LET height_cm == height_arg
        weight_kg == IF weight_arg = Omitted THEN None ELSE weight_arg
        age_years == IF age_arg = Omitted THEN None ELSE age_arg
    IN IF height_cm = Omitted THEN TypeError
       ELSE IF method \notin {"height_based", "bsa", "allometric"} THEN ValueError
       ELSE IF method # "height_based" /\ weight_kg = None THEN ValueError
       ELSE IF height_cm = None THEN TypeError
       ELSE LET base_clearance == 12 * (FINE \div 10)
                height_based ==
                    base_clearance + (4 * (base_clearance \div 1000)) * (height_cm - 170)
                clearance ==
                    CASE method = "height_based" ->
                            IF Lower(sex) = "female"
                            THEN (height_based * 85) \div 100 ELSE height_based
                      [] method = "bsa" ->
                            65 * (BodySurfaceArea(weight_kg, height_cm) * 10)
                      [] method = "allometric" ->
                            15 * WeightRatioPow75(weight_kg) * HeightRatioPow25(height_cm)
                aged == IF age_years # None /\ age_years > 40
                        THEN (clearance \div 100) * Max(100 - (age_years - 40), 80)
                        ELSE clearance
            IN Return(Clip(aged, FINE \div 2, 3 * FINE))

insulin_calculate_insulin_clearance(height_arg, weight_arg, age_arg, sex, method) ==
    LET height_cm == height_arg
        weight_kg == IF weight_arg = Omitted THEN None ELSE weight_arg
        age_years == IF age_arg = Omitted THEN None ELSE age_arg
    IN IF height_cm = Omitted THEN TypeError
       ELSE IF method \notin {"height_based", "bsa", "allometric"} THEN ValueError
       ELSE IF method # "height_based" /\ weight_kg = None THEN ValueError
       ELSE IF height_cm = None THEN TypeError
       ELSE LET base_clearance == 12 * (FINE \div 10)
                height_based ==
                    base_clearance + (4 * (base_clearance \div 1000)) * (height_cm - 170)
                clearance ==
                    CASE method = "height_based" ->
                            IF Lower(sex) = "female"
                            THEN (height_based * 85) \div 100 ELSE height_based
                      [] method = "bsa" ->
                            65 * (BodySurfaceArea(weight_kg, height_cm) * 10)
                      [] method = "allometric" ->
                            15 * WeightRatioPow75(weight_kg) * HeightRatioPow25(height_cm)
                aged == IF age_years # None /\ age_years > 40
                        THEN (clearance \div 100) * Max(100 - (age_years - 40), 70)
                        ELSE clearance
            IN Return(Clip(aged, FINE \div 2, 3 * FINE))

\* the branch on method of calculate_glucose_volume_distribution: the volume
\* before the height and age adjustments, or the exception raised
VolumeOfMethod(height_cm, weight_kg, age_years, sex, method) ==
    CASE method = "tbw_based" ->
            IF weight_kg = None THEN ValueError
            ELSE LET adult == IF Lower(sex) = "male" THEN 6000 ELSE 5000
                     tbw_percent ==
                         IF age_years # None /\ age_years > 30
                         THEN (adult * Max(1000 - (age_years - 30), 850)) \div 1000
                         ELSE adult
                     tbw == weight_kg * tbw_percent
                 IN Return((tbw * 45) \div 100)
      [] method = "bsa_based" ->
            IF weight_kg = None THEN ValueError
            ELSE IF height_cm = None THEN TypeError
            ELSE Return((135 * BodySurfaceArea(weight_kg, height_cm)) \div 10)
      [] method = "weight_based" ->
            IF weight_kg = None THEN ValueError
            ELSE LET base_volume_per_kg ==
                         IF Lower(sex) = "female" THEN (2000 * 90) \div 100 ELSE 2000
                 IN Return(weight_kg * base_volume_per_kg)
      [] OTHER -> ValueError

\* the pediatric and the elderly adjustment of the volume
VolumeAgeAdjustment(volume, age_years) ==
    IF age_years = None THEN volume
    ELSE IF age_years < 18
         THEN (volume * Min(100 + 2 * (18 - age_years), 130)) \div 100
    ELSE IF age_years > 65
         THEN (volume * Max(1000 - 5 * (age_years - 65), 850)) \div 1000
    ELSE volume

calculate_glucose_volume_distribution(height_arg, weight_arg, age_arg, sex, method) ==
    LET height_cm == Bind(height_arg, 170)
        weight_kg == Bind(weight_arg, 53)
        age_years == Bind(age_arg, 10)
        of_method == VolumeOfMethod(height_cm, weight_kg, age_years, sex, method)
    IN IF of_method.raised THEN of_method
       ELSE IF height_cm = None THEN TypeError
       ELSE LET volume == (of_method.value * HeightRatioPow15(height_cm)) \div 1000
            IN Return(Clip(VolumeAgeAdjustment(volume, age_years),
                           5 * SCALE, 25 * SCALE))

(***************************************************************************)
(* timeseries_calc.py: process_period                                      *)
(* Units: glucose in tenths of mmol/L, time_interval in minutes, so the    *)
(* glucose integrals are tenths * minutes; doses and carbohydrate in the   *)
(* state columns' unit, 1/SCALE; period_length in minutes.  A sensitivity  *)
(* is carried in units of 1000 / CONVERSION (the factor CONVERSION / 1000  *)
(* of its denominator stays in the unit), rounded down to a whole number.  *)
(***************************************************************************)
BW == 53

HEIGHT_CM == 170

AGE_YEARS == 14

CONVERSION == 18

\* in hundredths
GEZI == 1

\* float inf, of either sign
Inf == 1000000000

\* a / b on floats: no exception, inf or NaN for a zero divisor
FloatDivide(a, b) ==
    IF IsNaN(a) \/ IsNaN(b) THEN NaN
    ELSE IF b = 0 THEN (IF a = 0 THEN NaN ELSE Inf)
    ELSE a \div b

\* a - b on floats
FloatMinus(a, b) == IF IsNaN(a) \/ IsNaN(b) THEN NaN ELSE a - b

SAMPLE_MINUTES == 5

BASAL_GLUCOSE == 56

group_col == "DateTime_hour"

KeyError == [raised |-> TRUE, rows |-> <<>>]

\* the columns process_period reads
PeriodColumns ==
    {"carb_bolus", "correction_bolus", "extended_bolus", "IOB_novorapid",
     "IOB_tresiba", "COB", "glucose", "time_interval", "total_carbs",
     "total_basal", "DateTime_rounded", group_col}

RECURSIVE Ascending(_)
Ascending(S) ==
    IF S = {} THEN <<>>
    ELSE LET m == CHOOSE x \in S : \A y \in S : x <= y
         IN <<m>> \o Ascending(S \ {m})

\* Series.sum(): NaN entries are skipped
RECURSIVE SumSkipNaN(_, _)
SumSkipNaN(rows, c) ==
    IF rows = <<>> THEN 0
    ELSE Fillna0(Head(rows)[c]) + SumSkipNaN(Tail(rows), c)

Abs(v) == IF IsNaN(v) THEN NaN ELSE IF v < 0 THEN -v ELSE v

\* the numerator shared by the two sensitivities, in 1/SCALE
SensitivityNumerator(AoC, AUC_delta_glucose, V_g, glucose_start, glucose_end) ==
    LET glucose_change == FloatMinus(glucose_end, glucose_start)
    IN IF IsNaN(glucose_change) THEN NaN
       ELSE AoC \div BW
              - (GEZI * 60 * AUC_delta_glucose * CONVERSION) \div 6000
              - ((V_g \div BW) * glucose_change * CONVERSION) \div SCALE

\* numerator / (1/clearance * insulin * AUC_abs_delta_glucose * CONVERSION/1000
\* / period_length), clearance in tenths of L
Sensitivity(numerator, clearance, insulin, AUC_abs_delta_glucose, period_length) ==
    IF IsNaN(numerator) THEN NaN
    ELSE FloatDivide(numerator * period_length * clearance,
                     insulin * AUC_abs_delta_glucose)

\* process_period with the default group_col; time_interval is a parameter
\* the body never reads
process_period(df_period, use_period_start_glucose_as_basal, basal_glucose_arg, time_interval) ==
    IF ~(PeriodColumns \subseteq df_period.columns) THEN KeyError
    ELSE
    LET V_g == calculate_glucose_volume_distribution(HEIGHT_CM, BW, AGE_YEARS,
                                                     "male", "tbw_based").value
        CL == calculate_insulin_clearance(HEIGHT_CM, BW, AGE_YEARS,
                                          "male", "height_based").value
                  \div (FINE \div 10)
        dataset0 == df_period
        n == NRows(dataset0)
        dataset1 == SetColumn(dataset0, "total_bolus",
                       [i \in 1..n |-> SumPropagateNaN(dataset0.rows[i], bolus_columns)])
        IOB_novorapid_start == dataset1.rows[1].IOB_novorapid
        IOB_novorapid_end == dataset1.rows[n].IOB_novorapid
        IOB_tresiba_start == dataset1.rows[1].IOB_tresiba
        IOB_tresiba_end == dataset1.rows[n].IOB_tresiba
        COB_start == dataset1.rows[1].COB
        COB_end == dataset1.rows[n].COB
        glucose_start == dataset1.rows[1].glucose
        glucose_end == dataset1.rows[n].glucose
        basal_glucose == IF use_period_start_glucose_as_basal
                         THEN glucose_start ELSE basal_glucose_arg
        GlucoseOverBasal(row) ==
            IF IsNaN(row.glucose) \/ IsNaN(basal_glucose) \/ IsNaN(row.time_interval)
            THEN NaN
            ELSE (row.glucose - basal_glucose) * row.time_interval
        dataset2 == SetColumn(dataset1, "glucose_over_basal",
                       [i \in 1..n |-> GlucoseOverBasal(dataset1.rows[i])])
        dataset == SetColumn(dataset2, "abs_glucose_over_basal",
                       [i \in 1..n |-> Abs(dataset2.rows[i].glucose_over_basal)])
        keys == Ascending({dataset.rows[i][group_col] : i \in 1..n})
        Group(key) == SelectSeq(dataset.rows, LAMBDA row : row[group_col] = key)
        Times(g) == {g[i].DateTime_rounded : i \in 1..Len(g)}
        Aggregate(key) ==
            LET g == Group(key)
                first_reading == CHOOSE x \in Times(g) : \A y \in Times(g) : x <= y
                last_reading == CHOOSE x \in Times(g) : \A y \in Times(g) : x >= y
                total_carbs == SumSkipNaN(g, "total_carbs")
                total_bolus == SumSkipNaN(g, "total_bolus")
                total_basal == SumSkipNaN(g, "total_basal")
                AUC_delta_glucose == SumSkipNaN(g, "glucose_over_basal")
                AUC_abs_delta_glucose == SumSkipNaN(g, "abs_glucose_over_basal")
                period_length == (last_reading - first_reading) + 5
                AoC == total_carbs * SCALE + COB_start - COB_end
                AUC_novorapid == total_bolus * SCALE + IOB_novorapid_start
                                    - IOB_novorapid_end
                AUC_tresiba == total_basal * SCALE + IOB_tresiba_start
                                    - IOB_tresiba_end
                numerator == SensitivityNumerator(AoC, AUC_delta_glucose, V_g,
                                                  glucose_start, glucose_end)
            IN [DateTime_hour |-> key,
                total_carbs |-> total_carbs,
                total_bolus |-> total_bolus,
                total_basal |-> total_basal,
                AUC_delta_glucose |-> AUC_delta_glucose,
                AUC_abs_delta_glucose |-> AUC_abs_delta_glucose,
                first_reading |-> first_reading,
                last_reading |-> last_reading,
                period_length |-> period_length,
                AoC |-> AoC,
                AUC_novorapid |-> AUC_novorapid,
                AUC_tresiba |-> AUC_tresiba,
                insulin_sensitivity_article |->
                    Sensitivity(numerator, CL * 60, AUC_novorapid + AUC_tresiba,
                                AUC_abs_delta_glucose, period_length),
                insulin_sensitivity_Nadia |->
                    Sensitivity(numerator, CL, AUC_novorapid,
                                AUC_abs_delta_glucose, period_length)]
    IN [raised |-> FALSE, rows |-> [k \in 1..Len(keys) |-> Aggregate(keys[k])]]

\* what a caller adds to the engine's output before aggregating: the hour
\* of each sample as the grouping key and the grid width per sample
WithPeriodColumns(df) ==
    LET h == SetColumn(df, group_col,
                       [i \in 1..NRows(df) |-> df.rows[i].DateTime_rounded \div 60])
    IN SetColumn(h, "time_interval", Constant(h, SAMPLE_MINUTES))

(***************************************************************************)
(* timeseries_calc.py: get_period_of_day, get_period_hours                 *)
(***************************************************************************)
\* the buckets with their upper ends included
get_period_of_day_closed(hour) ==
    IF 7 <= hour /\ hour <= 11 THEN "morning"
    ELSE IF 11 <= hour /\ hour <= 15 THEN "noon"
    ELSE IF 15 <= hour /\ hour <= 19 THEN "evening"
    ELSE IF 19 <= hour /\ hour <= 23 THEN "before bed"
    ELSE "night"

get_period_of_day(hour) ==
    IF 7 <= hour /\ hour < 11 THEN "morning"
    ELSE IF 11 <= hour /\ hour < 15 THEN "noon"
    ELSE IF 15 <= hour /\ hour < 19 THEN "evening"
    ELSE IF 19 <= hour /\ hour < 23 THEN "before bed"
    ELSE "night"

get_period_hours(period) ==
    IF period \in {"morning", "noon", "evening", "before bed"} THEN 4 ELSE 8

(***************************************************************************)
(* The engine and the aggregation, called on small series                  *)
(***************************************************************************)
\* the sample intervals (minutes) a caller configures: the default and a
\* 10-minute grid
TimeIntervals == {SAMPLE_MINUTES, 2 * SAMPLE_MINUTES}

NoPeriodCall ==
    [use_period_start_glucose_as_basal |-> FALSE, basal_glucose |-> NaN,
     time_interval |-> 0]

MaxRows == 3

\* sample times in minutes: two neighbouring grid points, the points 6 h
\* after each, and the point 96 h after the second
SampleTimes == {0, 5, 360, 365, 5765}

InputColumns ==
    {"DateTime_rounded", "glucose", "carb_bolus", "correction_bolus",
     "extended_bolus", "basal", "carbs"}

Sample(glucose, carb_bolus, correction_bolus, extended_bolus, basal, carbs) ==
    [glucose |-> glucose, carb_bolus |-> carb_bolus,
     correction_bolus |-> correction_bolus, extended_bolus |-> extended_bolus,
     basal |-> basal, carbs |-> carbs]

\* what one sample can carry: nothing (zeros or NaN), a bolus with missing
\* fields, a bolus split over two fields, a basal dose, carbohydrate, a
\* meal with its bolus, a dose of each kind
SampleKinds ==
    {Sample(56, 0, 0, 0, 0, 0),
     Sample(NaN, NaN, NaN, NaN, NaN, NaN),
     Sample(70, 2, NaN, 0, NaN, 0),
     Sample(NaN, NaN, 1, 2, 0, NaN),
     Sample(48, 0, 0, 0, 10, NaN),
     Sample(62, NaN, NaN, NaN, NaN, 30),
     Sample(90, 4, 0, NaN, 0, 45),
     Sample(40, 0, 0, 1, 12, 15)}

Reverse(s) == [i \in 1..Len(s) |-> s[Len(s) + 1 - i]]

\* the table sorted with the latest sample first
LatestFirst(df) == [df EXCEPT !.rows = Reverse(df.rows)]

\* the series with one sample per time of S, in ascending or descending order
Series(S, f, descending) ==
    LET times == IF descending THEN Reverse(Ascending(S)) ELSE Ascending(S)
    IN [columns |-> InputColumns,
        rows |-> [i \in 1..Len(times) |->
                    [c \in InputColumns |->
                        IF c = "DateTime_rounded" THEN times[i]
                        ELSE f[times[i]][c]]]]

Init ==
    /\ kcall = NoCall
    /\ kret = Return(0)
    /\ \E S \in SUBSET SampleTimes :
          /\ Cardinality(S) \in 1..MaxRows
          /\ \E f \in [S -> SampleKinds], descending \in BOOLEAN :
                data_df = Series(S, f, descending)
    /\ annotated = NoFrame
    /\ rerun = NoFrame
    /\ period_df = NoFrame
    /\ grouped = <<>>
    /\ pcall = NoPeriodCall

\* annotated = calculate_active_insulin_and_carbs_timeseries(data_df)
Calculate ==
    /\ annotated = NoFrame
    /\ annotated' = calculate_active_insulin_and_carbs_timeseries(data_df)
    /\ UNCHANGED <<data_df, rerun, period_df, grouped, pcall, kernelVars>>

\* the engine called again, on its own output
Recalculate ==
    /\ annotated # NoFrame
    /\ rerun = NoFrame
    /\ period_df = NoFrame
    /\ rerun' = calculate_active_insulin_and_carbs_timeseries(annotated)
    /\ UNCHANGED <<data_df, annotated, period_df, grouped, pcall, kernelVars>>

\* the caller gets the table it will aggregate: the engine's output, with or
\* without the columns process_period needs, in the engine's order or with
\* the latest sample first
PreparePeriods ==
    /\ annotated # NoFrame
    /\ rerun = NoFrame
    /\ period_df = NoFrame
    /\ \E prepared \in {"no", "yes", "latest first"} :
          period_df' = CASE prepared = "no" -> annotated
                         [] prepared = "yes" -> WithPeriodColumns(annotated)
                         [] prepared = "latest first" ->
                                LatestFirst(WithPeriodColumns(annotated))
    /\ UNCHANGED <<data_df, annotated, rerun, grouped, pcall, kernelVars>>

\* grouped = process_period(period_df, ...)
ProcessPeriod ==
    /\ period_df # NoFrame
    /\ pcall = NoPeriodCall
    /\ \E use_period_start_glucose_as_basal \in BOOLEAN, time_interval \in TimeIntervals :
          /\ pcall' = [use_period_start_glucose_as_basal |->
                           use_period_start_glucose_as_basal,
                       basal_glucose |-> BASAL_GLUCOSE,
                       time_interval |-> time_interval]
          /\ grouped' = process_period(period_df, use_period_start_glucose_as_basal,
                                       BASAL_GLUCOSE, time_interval)
    /\ UNCHANGED <<data_df, annotated, rerun, period_df, kernelVars>>

Next == Calculate \/ Recalculate \/ PreparePeriods \/ ProcessPeriod

Spec == Init /\ [][Next]_vars

(***************************************************************************)
(* The engine called on a series in which one sample has no timestamp      *)
(***************************************************************************)
\* the series of Init with the timestamp of its row at position missing
\* replaced by NaT
WithMissingTimestamp(df, missing) ==
    [df EXCEPT !.rows[missing].DateTime_rounded = NaT]

InitMissingTimestamp ==
    /\ kcall = NoCall
    /\ kret = Return(0)
    /\ \E S \in SUBSET SampleTimes :
          /\ Cardinality(S) \in 1..MaxRows
          /\ \E f \in [S -> SampleKinds], missing \in 1..Cardinality(S) :
                data_df = WithMissingTimestamp(Series(S, f, FALSE), missing)
    /\ annotated = NoFrame
    /\ rerun = NoFrame
    /\ period_df = NoFrame
    /\ grouped = <<>>
    /\ pcall = NoPeriodCall

NextMissingTimestamp == Calculate \/ Recalculate

SpecMissingTimestamp == InitMissingTimestamp /\ [][NextMissingTimestamp]_vars

(***************************************************************************)
(* The engine called on a series in any row order, timestamps repeated     *)
(***************************************************************************)
MaxUnorderedRows == 3

UnorderedTimes == {0, 5, 6 * 60}

\* a quiet sample, a meal with its bolus, a basal dose, a dose of each kind
UnorderedKinds ==
    {Sample(56, 0, 0, 0, 0, 0),
     Sample(90, 4, 0, NaN, 0, 45),
     Sample(48, 0, 0, 0, 10, NaN),
     Sample(40, 0, 0, 1, 12, 15)}

InitUnordered ==
    /\ kcall = NoCall
    /\ kret = Return(0)
    /\ \E n \in 1..MaxUnorderedRows :
          \E times \in [1..n -> UnorderedTimes], kinds \in [1..n -> UnorderedKinds] :
              data_df = [columns |-> InputColumns,
                         rows |-> [i \in 1..n |->
                                     [c \in InputColumns |->
                                         IF c = "DateTime_rounded" THEN times[i]
                                         ELSE kinds[i][c]]]]
    /\ annotated = NoFrame
    /\ rerun = NoFrame
    /\ period_df = NoFrame
    /\ grouped = <<>>
    /\ pcall = NoPeriodCall

NextUnordered == Calculate \/ Recalculate

SpecUnordered == InitUnordered /\ [][NextUnordered]_vars

(***************************************************************************)
(* Direct calls of the estimators of individualized_constants.py and of    *)
(* the period-of-day functions                                             *)
(***************************************************************************)
\* a very short, the reference and a tall height
Heights == {50, 170, 200}

\* a light, the reference and a heavy weight
Weights == {10, 53, 200}

\* ages around the thresholds 18, 30, 40 and 65 and beyond the floors
Ages == {5, 10, 14, 17, 18, 30, 31, 40, 41, 55, 65, 66, 70, 71, 100}

Sexes == {"male", "female", "Female", "FEMALE"}

ClearanceMethods == {"height_based", "bsa", "allometric", "tbw_based", "height-based"}

VolumeMethods == {"tbw_based", "bsa_based", "weight_based", "bsa", "weight"}

Periods == {"morning", "noon", "evening", "before bed", "night"}

EstimatorInit ==
    /\ kcall = NoCall
    /\ kret = Return(0)
    /\ data_df = NoFrame
    /\ annotated = NoFrame
    /\ rerun = NoFrame
    /\ period_df = NoFrame
    /\ grouped = <<>>
    /\ pcall = NoPeriodCall

\* the functions are pure: one call per behaviour shows all they do
EstimatorCall(fn, height_cm, weight_kg, age_years, sex, method) ==
    [fn |-> fn, height_cm |-> height_cm, weight_kg |-> weight_kg,
     age_years |-> age_years, sex |-> sex, method |-> method]

CallInsulinClearance ==
    /\ kcall = NoCall
    /\ \E height_cm \in Heights \cup {None, Omitted},
          weight_kg \in Weights \cup {None, Omitted},
          age_years \in Ages \cup {None, Omitted},
          sex \in Sexes, method \in ClearanceMethods :
          /\ kcall' = EstimatorCall("calculate_insulin_clearance",
                                    height_cm, weight_kg, age_years, sex, method)
          /\ kret' = calculate_insulin_clearance(height_cm, weight_kg, age_years,
                                                 sex, method)
    /\ UNCHANGED engineVars

\* the function of the same name imported from insulin.py
CallInsulinPyClearance ==
    /\ kcall = NoCall
    /\ \E height_cm \in Heights \cup {None, Omitted},
          weight_kg \in Weights \cup {None, Omitted},
          age_years \in Ages \cup {None, Omitted},
          sex \in Sexes, method \in ClearanceMethods :
          /\ kcall' = EstimatorCall("insulin.calculate_insulin_clearance",
                                    height_cm, weight_kg, age_years, sex, method)
          /\ kret' = insulin_calculate_insulin_clearance(height_cm, weight_kg,
                                                         age_years, sex, method)
    /\ UNCHANGED engineVars

CallGlucoseVolumeDistribution ==
    /\ kcall = NoCall
    /\ \E height_cm \in Heights \cup {None, Omitted},
          weight_kg \in Weights \cup {None, Omitted},
          age_years \in Ages \cup {None, Omitted},
          sex \in Sexes, method \in VolumeMethods :
          /\ kcall' = EstimatorCall("calculate_glucose_volume_distribution",
                                    height_cm, weight_kg, age_years, sex, method)
          /\ kret' = calculate_glucose_volume_distribution(height_cm, weight_kg,
                                                           age_years, sex, method)
    /\ UNCHANGED engineVars

CallPeriodOfDay ==
    /\ kcall = NoCall
    /\ \E hour \in 0..23 :
          /\ kcall' = [fn |-> "get_period_of_day", hour |-> hour]
          /\ kret' = [raised |-> FALSE, period |-> get_period_of_day(hour)]
    /\ UNCHANGED engineVars

CallPeriodHours ==
    /\ kcall = NoCall
    /\ \E period \in Periods :
          /\ kcall' = [fn |-> "get_period_hours", period |-> period]
          /\ kret' = Return(get_period_hours(period))
    /\ UNCHANGED engineVars

EstimatorNext ==
    \/ CallInsulinClearance
    \/ CallInsulinPyClearance
    \/ CallGlucoseVolumeDistribution
    \/ CallPeriodOfDay
    \/ CallPeriodHours

SpecEstimators == EstimatorInit /\ [][EstimatorNext]_vars

(***************************************************************************)
(* Direct calls of the kernels                                             *)
(***************************************************************************)

MaxKernelSteps == 6

MaxCarbs == 3

\* elapsed times (minutes) a caller passes: around zero on the 5-minute
\* grid and on whole hours, both signs
KernelTimes ==
    {5 * i : i \in -MaxKernelSteps..MaxKernelSteps}
        \cup {60 * i : i \in -MaxKernelSteps..MaxKernelSteps}

\* the `type` strings a caller passes; the last two are not insulin kinds
KernelTypes == {"novorapid", "tresiba", "lantus", "carbohydrate"}

KernelInit ==
    /\ kcall = NoCall
    /\ kret = Return(0)
    /\ data_df = NoFrame
    /\ annotated = NoFrame
    /\ rerun = NoFrame
    /\ period_df = NoFrame
    /\ grouped = <<>>
    /\ pcall = NoPeriodCall

CallActiveInsulin ==
    \E t \in KernelTimes, type \in KernelTypes :
        /\ kcall' = [fn |-> "active_insulin", t |-> t, type |-> type, total_carbs |-> 0]
        /\ kret' = active_insulin(t, type)
        /\ UNCHANGED engineVars

CallInsulinOnBoard ==
    \E t \in KernelTimes, type \in KernelTypes :
        /\ kcall' = [fn |-> "insulin_on_board", t |-> t, type |-> type, total_carbs |-> 0]
        /\ kret' = insulin_on_board(t, type)
        /\ UNCHANGED engineVars

CallCarbsOnBoard ==
    \E t \in KernelTimes, total_carbs \in 0..MaxCarbs :
        /\ kcall' = [fn |-> "carbs_on_board", t |-> t, type |-> "carbohydrate",
                     total_carbs |-> total_carbs]
        /\ kret' = Return(carbs_on_board(t, total_carbs))
        /\ UNCHANGED engineVars

KernelNext == CallActiveInsulin \/ CallInsulinOnBoard \/ CallCarbsOnBoard

SpecKernel == KernelInit /\ [][KernelNext]_vars

(***************************************************************************)
(* timeseries_calc.py: identify_glucose_events                             *)
(***************************************************************************)
\* pd.Timedelta(hours=h), in minutes
Hours(h) == 60 * h

\* the positions of the rows with glucose > glucose_threshold, in row order
\* (a missing glucose compares False)
RECURSIVE HighGlucoseMoments(_, _, _)
HighGlucoseMoments(df, glucose_threshold, i) ==
    IF i > NRows(df) THEN <<>>
    ELSE IF ~IsNaN(df.rows[i].glucose) /\ df.rows[i].glucose > glucose_threshold
    THEN <<i>> \o HighGlucoseMoments(df, glucose_threshold, i + 1)
    ELSE HighGlucoseMoments(df, glucose_threshold, i + 1)

\* time_window_mask & bolus_mask
CandidateBoluses(df, current_time, lookback_hours) ==
    {i \in 1..NRows(df) :
        /\ df.rows[i].DateTime_rounded >= current_time - Hours(lookback_hours)
        /\ df.rows[i].DateTime_rounded < current_time
        /\ \/ df.rows[i].carb_bolus > 0
           \/ df.rows[i].correction_bolus > 0}

\* Series.idxmin(): the first row that holds the least timestamp
IdxMin(df, candidates) ==
    CHOOSE i \in candidates :
        \A j \in candidates :
            \/ df.rows[i].DateTime_rounded < df.rows[j].DateTime_rounded
            \/ df.rows[i].DateTime_rounded = df.rows[j].DateTime_rounded /\ i <= j

\* the gap compared with lookback_hours instead of min_gap_hours
RECURSIVE MarkStartsGapOfLookback(_, _, _, _, _, _, _)
MarkStartsGapOfLookback(df, moments, k, event, last_event_start_time, lookback_hours, min_gap_hours) ==
    IF k > Len(moments) THEN event
    ELSE LET current_time == df.rows[moments[k]].DateTime_rounded
             candidate_boluses == CandidateBoluses(df, current_time, lookback_hours)
         IN IF candidate_boluses = {}
            THEN MarkStartsGapOfLookback(df, moments, k + 1, event, last_event_start_time,
                                     lookback_hours, min_gap_hours)
            ELSE LET earliest_bolus_idx == IdxMin(df, candidate_boluses)
                     earliest_bolus_time == df.rows[earliest_bolus_idx].DateTime_rounded
                 IN IF \/ last_event_start_time = None
                       \/ earliest_bolus_time - last_event_start_time
                              >= Hours(lookback_hours)
                    THEN MarkStartsGapOfLookback(df, moments, k + 1,
                                    [event EXCEPT ![earliest_bolus_idx] = "start"],
                                    earliest_bolus_time, lookback_hours, min_gap_hours)
                    ELSE MarkStartsGapOfLookback(df, moments, k + 1, event,
                                    last_event_start_time, lookback_hours, min_gap_hours)

\* step 2: the loop over the high glucose moments from the k-th on
RECURSIVE MarkStarts(_, _, _, _, _, _, _)
MarkStarts(df, moments, k, event, last_event_start_time, lookback_hours, min_gap_hours) ==
    IF k > Len(moments) THEN event
    ELSE LET current_time == df.rows[moments[k]].DateTime_rounded
             candidate_boluses == CandidateBoluses(df, current_time, lookback_hours)
         IN IF candidate_boluses = {}
            THEN MarkStarts(df, moments, k + 1, event, last_event_start_time,
                            lookback_hours, min_gap_hours)
            ELSE LET earliest_bolus_idx == IdxMin(df, candidate_boluses)
                     earliest_bolus_time == df.rows[earliest_bolus_idx].DateTime_rounded
                 IN IF \/ last_event_start_time = None
                       \/ earliest_bolus_time - last_event_start_time
                              >= Hours(min_gap_hours)
                    THEN MarkStarts(df, moments, k + 1,
                                    [event EXCEPT ![earliest_bolus_idx] = "start"],
                                    earliest_bolus_time, lookback_hours, min_gap_hours)
                    ELSE MarkStarts(df, moments, k + 1, event,
                                    last_event_start_time, lookback_hours, min_gap_hours)

\* (time, glucose) of row i sorts before that of row j; equal tuples keep
\* their row order
TupleBefore(df, i, j) ==
    \/ df.rows[i].DateTime_rounded < df.rows[j].DateTime_rounded
    \/ /\ df.rows[i].DateTime_rounded = df.rows[j].DateTime_rounded
       /\ \/ df.rows[i].glucose < df.rows[j].glucose
          \/ df.rows[i].glucose = df.rows[j].glucose /\ i < j

\* start_times_and_glucose.sort(), as the positions of the start rows
RECURSIVE SortStarts(_, _)
SortStarts(df, starts) ==
    IF starts = {} THEN <<>>
    ELSE LET first == CHOOSE i \in starts : \A j \in starts \ {i} : TupleBefore(df, i, j)
         IN <<first>> \o SortStarts(df, starts \ {first})

\* df_data_processed['DateTime_rounded'].max()
MaxTime(df) ==
    CHOOSE t \in {df.rows[i].DateTime_rounded : i \in 1..NRows(df)} :
        \A i \in 1..NRows(df) : df.rows[i].DateTime_rounded <= t

\* the rows of the event period with glucose <= start_glucose
CrossingPoints(df, start_time, start_glucose, period_end, min_duration_hours) ==
    {i \in 1..NRows(df) :
        /\ df.rows[i].DateTime_rounded >= start_time + Hours(min_duration_hours)
        /\ df.rows[i].DateTime_rounded < period_end
        /\ ~IsNaN(df.rows[i].glucose)
        /\ ~IsNaN(start_glucose)
        /\ df.rows[i].glucose <= start_glucose}

\* crossing_points.index[0] after sort_values('DateTime_rounded'): a row of
\* the least timestamp; among rows that share it the sort may keep the row
\* order or not, so the first or the last of them comes first
FirstCrossing(df, crossing_points, tie) ==
    LET earliest == {i \in crossing_points :
                        \A j \in crossing_points :
                            df.rows[i].DateTime_rounded <= df.rows[j].DateTime_rounded}
    IN IF tie = "last"
       THEN CHOOSE i \in earliest : \A j \in earliest : i >= j
       ELSE CHOOSE i \in earliest : \A j \in earliest : i <= j

\* step 3: the loop over the sorted starts from the k-th on
RECURSIVE MarkEnds(_, _, _, _, _, _)
MarkEnds(df, starts, k, event, min_duration_hours, tie) ==
    IF k > Len(starts) THEN event
    ELSE LET start_time == df.rows[starts[k]].DateTime_rounded
             start_glucose == df.rows[starts[k]].glucose
             period_end == IF k < Len(starts)
                           THEN df.rows[starts[k + 1]].DateTime_rounded
                           ELSE MaxTime(df)
             crossing_points == CrossingPoints(df, start_time, start_glucose,
                                               period_end, min_duration_hours)
         IN IF crossing_points = {}
            THEN MarkEnds(df, starts, k + 1, event, min_duration_hours, tie)
            ELSE MarkEnds(df, starts, k + 1,
                          [event EXCEPT ![FirstCrossing(df, crossing_points, tie)] = "end"],
                          min_duration_hours, tie)

\* the rows of df with event.notna(), in row order
RECURSIVE EventsSummary(_, _)
EventsSummary(rows, i) ==
    IF i > Len(rows) THEN <<>>
    ELSE IF rows[i].event # "None" THEN <<rows[i]>> \o EventsSummary(rows, i + 1)
    ELSE EventsSummary(rows, i + 1)

\* the returned pair (df_modified, events_summary)
identify_glucose_events(df_data, glucose_threshold, lookback_hours, min_gap_hours, min_duration_hours, tie) ==
    LET unmarked == [i \in 1..NRows(df_data) |-> "None"]
        started == MarkStarts(df_data, HighGlucoseMoments(df_data, glucose_threshold, 1),
                              1, unmarked, None, lookback_hours, min_gap_hours)
        start_events == {i \in 1..NRows(df_data) : started[i] = "start"}
        event == MarkEnds(df_data, SortStarts(df_data, start_events), 1, started,
                          min_duration_hours, tie)
        df_data_processed == SetColumn(df_data, "event", event)
    IN [raised |-> FALSE,
        df_modified |-> df_data_processed,
        events_summary |-> [columns |-> df_data_processed.columns,
                            rows |-> EventsSummary(df_data_processed.rows, 1)]]

(***************************************************************************)
(* Direct calls of identify_glucose_events                                 *)
(***************************************************************************)
MaxEventRows == 4

EventColumns == {"DateTime_rounded", "glucose", "carb_bolus", "correction_bolus"}

EventTimes == {0, 60, 90, 120}

EventSample(glucose, carb_bolus, correction_bolus) ==
    [glucose |-> glucose, carb_bolus |-> carb_bolus,
     correction_bolus |-> correction_bolus]

\* glucose in tenths of mmol/L: a quiet sample, one above the threshold, a
\* correction bolus, a meal bolus at a higher glucose, a missing glucose
EventKinds ==
    {EventSample(50, 0, 0),
     EventSample(130, 0, NaN),
     EventSample(50, NaN, 2),
     EventSample(150, 4, 0),
     EventSample(NaN, 0, 0)}

GLUCOSE_THRESHOLD == 120

LOOKBACK_HOURS == 1

MinGapHours == {1, 3}

MinDurationHours == {0, 1}

CallIdentifyGlucoseEvents ==
    /\ kcall = NoCall
    /\ \E n \in 1..MaxEventRows :
          \E times \in [1..n -> EventTimes], kinds \in [1..n -> EventKinds],
             min_gap_hours \in MinGapHours, min_duration_hours \in MinDurationHours,
             tie \in {"first", "last"} :
              LET df_data == [columns |-> EventColumns,
                              rows |-> [i \in 1..n |->
                                          [c \in EventColumns |->
                                              IF c = "DateTime_rounded" THEN times[i]
                                              ELSE kinds[i][c]]]]
              IN /\ kcall' = [fn |-> "identify_glucose_events",
                              df_data |-> df_data,
                              glucose_threshold |-> GLUCOSE_THRESHOLD,
                              lookback_hours |-> LOOKBACK_HOURS,
                              min_gap_hours |-> min_gap_hours,
                              min_duration_hours |-> min_duration_hours]
                 /\ kret' = identify_glucose_events(df_data, GLUCOSE_THRESHOLD,
                                LOOKBACK_HOURS, min_gap_hours, min_duration_hours, tie)
    /\ UNCHANGED engineVars

SpecEvents == EstimatorInit /\ [][CallIdentifyGlucoseEvents]_vars

(***************************************************************************)
(* hypoglycemia_analysis.py: analyze_hypoglycemia_treatment                *)
(* glucose in tenths of mmol/L, IOB and COB in 1/SCALE, carbs in grams     *)
(***************************************************************************)
HYPOGLYCEMIA_THRESHOLD == 45

LOOKAHEAD_READINGS == 24

\* the IOB above which a hypoglycemic row is ignored: 0.1 U
IOB_AT_START == 1000

\* the positions of data_sorted.iloc[i+1:max_lookhead], i the 0-based
\* position of the row at the 1-based position p
FollowingData(data_sorted, p) ==
    LET i == p - 1
        max_lookhead == Min(i + LOOKAHEAD_READINGS, NRows(data_sorted))
    IN {q \in 1..NRows(data_sorted) : q - 1 >= i + 1 /\ q - 1 < max_lookhead}

\* following_data[c].fillna(0).sum()
RECURSIVE SumOver(_, _, _)
SumOver(df, positions, c) ==
    IF positions = {} THEN 0
    ELSE LET q == CHOOSE x \in positions : TRUE
         IN Fillna0(df.rows[q][c]) + SumOver(df, positions \ {q}, c)

\* (following_data[c].fillna(0) == 0).all() for the three bolus columns
NoBolus(df, positions) ==
    \A q \in positions :
        \A c \in {"carb_bolus", "correction_bolus", "extended_bolus"} :
            Fillna0(df.rows[q][c]) = 0

First(positions) == CHOOSE q \in positions : \A x \in positions : q <= x

Last(positions) == CHOOSE q \in positions : \A x \in positions : q >= x

\* pd.cut(carbs_given, bins=[0, 15, 30, 100]): the label, or "nan" outside
CarbRange(carbs_given) ==
    IF carbs_given > 0 /\ carbs_given <= 15 THEN "Low"
    ELSE IF carbs_given > 15 /\ carbs_given <= 30 THEN "Medium"
    ELSE IF carbs_given > 30 /\ carbs_given <= 100 THEN "High"
    ELSE "nan"

\* the body of the loop for the row at position p: the episode appended, if any
HypoEpisode(data_sorted, p) ==
    LET row == data_sorted.rows[p]
        following_data == FollowingData(data_sorted, p)
    IN IF IsNaN(row.glucose) \/ ~(row.glucose < HYPOGLYCEMIA_THRESHOLD) THEN <<>>
       ELSE IF ~IsNaN(row.IOB_novorapid) /\ row.IOB_novorapid > IOB_AT_START THEN <<>>
       ELSE IF following_data = {} THEN <<>>
       ELSE LET no_bolus == NoBolus(data_sorted, following_data)
                COB_start == data_sorted.rows[First(following_data)].COB
                COB_end == data_sorted.rows[Last(following_data)].COB
                carbs_given == SumOver(data_sorted, following_data, "carbs")
                has_carbs == carbs_given > 0
                valid_glucose == {q \in following_data :
                                     ~IsNaN(data_sorted.rows[q].glucose)}
            IN IF ~(no_bolus /\ has_carbs) \/ valid_glucose = {} THEN <<>>
               ELSE LET max_glucose_after ==
                            CHOOSE g \in {data_sorted.rows[q].glucose : q \in valid_glucose} :
                                \A q \in valid_glucose : data_sorted.rows[q].glucose <= g
                        max_glucose_time ==
                            data_sorted.rows[First({q \in valid_glucose :
                                data_sorted.rows[q].glucose = max_glucose_after})].DateTime_rounded
                        glucose_difference == max_glucose_after - row.glucose
                        carb_amount == carbs_given * SCALE + COB_start - COB_end
                    IN << [hypo_datetime |-> row.DateTime_rounded,
                           hypo_glucose |-> row.glucose,
                           period_of_day |-> row.period_of_day,
                           carbs_given |-> carbs_given,
                           AoC |-> carb_amount,
                           max_glucose_after |-> max_glucose_after,
                           max_glucose_time |-> max_glucose_time,
                           glucose_difference |-> glucose_difference,
                           time_to_peak |-> max_glucose_time - row.DateTime_rounded,
                           \* mmol/L per gram, times 1000
                           recovery_ratio |-> IF carb_amount > 0
                                              THEN (glucose_difference * 100 * SCALE)
                                                       \div carb_amount
                                              ELSE 0,
                           carb_range |-> CarbRange(carbs_given)] >>

RECURSIVE HypoEpisodes(_, _)
HypoEpisodes(data_sorted, p) ==
    IF p > NRows(data_sorted) THEN <<>>
    ELSE HypoEpisode(data_sorted, p) \o HypoEpisodes(data_sorted, p + 1)

\* carbs_given summed over the episodes of the period q
RECURSIVE CarbsGivenSum(_, _)
CarbsGivenSum(episodes, q) ==
    IF episodes = <<>> THEN 0
    ELSE (IF Head(episodes).period_of_day = q THEN Head(episodes).carbs_given ELSE 0)
             + CarbsGivenSum(Tail(episodes), q)

\* period_analysis: per period of day the count of episodes and the mean of
\* carbs_given (in 1/100 g, round(2))
PeriodAnalysis(episodes) ==
    LET periods == {episodes[k].period_of_day : k \in 1..Len(episodes)}
    IN [q \in periods |->
           LET members == {k \in 1..Len(episodes) : episodes[k].period_of_day = q}
               carbs == CarbsGivenSum(episodes, q)
           IN [Count |-> Cardinality(members),
               Avg_Carbs |-> (carbs * 100) \div Cardinality(members)]]

analyze_hypoglycemia_treatment(data) ==
    LET data_sorted == SortValues(data)
        df_hypo_treatment == HypoEpisodes(data_sorted, 1)
    IN [raised |-> FALSE,
        df_hypo_treatment |-> df_hypo_treatment,
        period_analysis |-> PeriodAnalysis(df_hypo_treatment)]

(***************************************************************************)
(* Direct calls of analyze_hypoglycemia_treatment                          *)
(***************************************************************************)
MaxHypoRows == 26

\* a lone row, a short series, and series that end around the look-ahead
HypoLengths == {1, 3, MaxHypoRows - 2, MaxHypoRows - 1, MaxHypoRows}

HypoColumns ==
    {"DateTime_rounded", "glucose", "IOB_novorapid", "COB", "carb_bolus",
     "correction_bolus", "extended_bolus", "carbs", "period_of_day"}

\* a series on the 5-minute grid: glucose rising after a low at position
\* hypo, a snack at position snack, a bolus at position bolus (0: none), a
\* missing glucose at position gap (0: none)
HypoSeries(n, hypo, iob, snack, bolus, gap) ==
    [columns |-> HypoColumns,
     rows |-> [i \in 1..n |->
        [DateTime_rounded |-> SAMPLE_MINUTES * (i - 1),
         glucose |-> IF i = hypo THEN 40 ELSE IF i = gap THEN NaN ELSE 50 + i,
         IOB_novorapid |-> IF i = hypo THEN iob ELSE 0,
         COB |-> IF i >= snack THEN (15 - Min(i - snack, 15)) * SCALE ELSE 0,
         carb_bolus |-> IF i = bolus THEN NaN ELSE 0,
         correction_bolus |-> IF i = bolus THEN 1 ELSE 0,
         extended_bolus |-> 0,
         carbs |-> IF i = snack THEN 15 ELSE IF i = hypo THEN NaN ELSE 0,
         period_of_day |-> "night"]]]

CallAnalyzeHypoglycemiaTreatment ==
    /\ kcall = NoCall
    /\ \E n \in HypoLengths :
          \E hypo \in 1..Min(n, 2), iob \in {0, IOB_AT_START, 2 * IOB_AT_START},
             snack \in 1..n, bolus \in 0..n, gap \in {0, n},
             order \in {"ascending", "latest first"} :
              LET series == HypoSeries(n, hypo, iob, snack, bolus, gap)
                  data == IF order = "ascending" THEN series ELSE LatestFirst(series)
              IN /\ kcall' = [fn |-> "analyze_hypoglycemia_treatment", data |-> data]
                 /\ kret' = analyze_hypoglycemia_treatment(data)
    /\ UNCHANGED engineVars

SpecHypo == EstimatorInit /\ [][CallAnalyzeHypoglycemiaTreatment]_vars

(***************************************************************************)
(* read_data.py: read_xDrip                                                *)
(* a source is [status, readings]: readings maps a timestamp (minutes) to  *)
(* the raw_data of the row stored there, NaN for NULL, Absent for no row   *)
(***************************************************************************)
Absent == -2

OperationalError == [raised |-> TRUE, rows |-> <<>>, type |-> "OperationalError"]

\* raw_data / 1000 / 18, in tenths of mmol/L
SensorReading(raw_data) == IF IsNaN(raw_data) THEN NaN ELSE raw_data \div 1800

\* dt.floor('5min')
Floor5Min(t) == (t \div 5) * 5

\* the table as read_sql_query returns it: one row per stored reading
RECURSIVE TableRows(_, _)
TableRows(readings, times) ==
    IF times = {} THEN <<>>
    ELSE LET t == CHOOSE x \in times : \A y \in times : x <= y
         IN (IF readings[t] = Absent THEN <<>>
             ELSE << [timestamp |-> t, raw_data |-> readings[t]] >>)
                \o TableRows(readings, times \ {t})

RECURSIVE SumReadings(_)
SumReadings(rows) ==
    IF rows = <<>> THEN 0
    ELSE (IF IsNaN(Head(rows).raw_data) THEN 0 ELSE SensorReading(Head(rows).raw_data))
             + SumReadings(Tail(rows))

RECURSIVE CountReadings(_)
CountReadings(rows) ==
    IF rows = <<>> THEN 0
    ELSE (IF IsNaN(Head(rows).raw_data) THEN 0 ELSE 1) + CountReadings(Tail(rows))

\* the rows of the table that fall in the 5-minute bin that starts at b
RECURSIVE InBin(_, _)
InBin(rows, b) ==
    IF rows = <<>> THEN <<>>
    ELSE (IF Floor5Min(Head(rows).timestamp) = b THEN <<Head(rows)>> ELSE <<>>)
             \o InBin(Tail(rows), b)

\* resample('5min').agg(mean).dropna() with DateTime_rounded and
\* source_index added: one row per bin that holds a reading, ascending
RECURSIVE Resample(_, _, _)
Resample(rows, bins, i) ==
    IF bins = {} THEN <<>>
    ELSE LET b == CHOOSE x \in bins : \A y \in bins : x <= y
             members == InBin(rows, b)
         IN (IF CountReadings(members) = 0 THEN <<>>
             ELSE << [DateTime_rounded |-> b,
                      reading |-> SumReadings(members) \div CountReadings(members),
                      source_index |-> i] >>)
                \o Resample(rows, bins \ {b}, i)

\* the body of the try block for the source at the 0-based index i
ReadTable(source, table_name, i) ==
    LET df_table == TableRows(source.readings, DOMAIN source.readings)
    IN IF table_name = "BgReadings"
       THEN Resample(df_table, {Floor5Min(t) : t \in DOMAIN source.readings}, i)
       ELSE [k \in 1..Len(df_table) |->
                [timestamp |-> df_table[k].timestamp,
                 raw_data |-> df_table[k].raw_data, source_index |-> i]]

\* the loop over xdrip_paths from the k-th path on: the frames appended, or
\* the exception that leaves the function
RECURSIVE ReadSources(_, _, _)
ReadSources(xdrip_paths, table_name, k) ==
    IF k > Len(xdrip_paths) THEN [raised |-> FALSE, frames |-> <<>>]
    ELSE LET source == xdrip_paths[k]
             rest == ReadSources(xdrip_paths, table_name, k + 1)
         IN CASE source.status = "missing" -> rest
              [] source.status = "unopenable" -> [raised |-> TRUE, frames |-> <<>>]
              [] source.status = "unreadable" -> rest
              [] source.status = "ok" ->
                    IF rest.raised THEN rest
                    ELSE [raised |-> FALSE,
                          frames |-> <<ReadTable(source, table_name, k - 1)>>
                                        \o rest.frames]

\* pd.concat(all_dataframes, ignore_index=True)
RECURSIVE Concat(_)
Concat(frames) == IF frames = <<>> THEN <<>> ELSE Head(frames) \o Concat(Tail(frames))

\* sort_values(['DateTime_rounded', 'source_index']) of the rows at positions
RECURSIVE SortByTimeAndSource(_, _)
SortByTimeAndSource(rows, positions) ==
    IF positions = {} THEN <<>>
    ELSE LET first ==
                 CHOOSE p \in positions : \A q \in positions \ {p} :
                     \/ rows[p].DateTime_rounded < rows[q].DateTime_rounded
                     \/ /\ rows[p].DateTime_rounded = rows[q].DateTime_rounded
                        /\ \/ rows[p].source_index < rows[q].source_index
                           \/ rows[p].source_index = rows[q].source_index /\ p < q
         IN <<rows[first]>> \o SortByTimeAndSource(rows, positions \ {first})

\* drop_duplicates(subset=['DateTime_rounded'], keep='last')
RECURSIVE DropDuplicates(_, _)
DropDuplicates(rows, k) ==
    IF k > Len(rows) THEN <<>>
    ELSE (IF \E j \in (k + 1)..Len(rows) :
                 rows[j].DateTime_rounded = rows[k].DateTime_rounded
          THEN <<>> ELSE <<rows[k]>>)
             \o DropDuplicates(rows, k + 1)

\* combined_df.drop('source_index', axis=1)
DropSourceIndex(rows) ==
    [k \in 1..Len(rows) |->
        [c \in (DOMAIN rows[k]) \ {"source_index"} |-> rows[k][c]]]

read_xDrip(table_name, xdrip_paths) ==
    LET read == ReadSources(xdrip_paths, table_name, 1)
        combined_df == Concat(read.frames)
    IN IF read.raised THEN OperationalError
       ELSE IF read.frames = <<>> THEN [raised |-> FALSE, rows |-> <<>>]
       ELSE IF table_name = "BgReadings"
       THEN LET sorted == SortByTimeAndSource(combined_df, 1..Len(combined_df))
                kept == DropSourceIndex(DropDuplicates(sorted, 1))
            IN [raised |-> FALSE, rows |-> SortedPrefix(kept, Len(kept))]
       ELSE [raised |-> FALSE, rows |-> DropSourceIndex(combined_df)]

(***************************************************************************)
(* Direct calls of read_xDrip                                              *)
(***************************************************************************)
MaxSources == 2

\* two timestamps of one 5-minute bin and one of the next
ReadingTimes == {0, 2, 5}

\* no row, a NULL raw_data, 4.0 mmol/L, 6.0 mmol/L
RawData == {Absent, NaN, 72000, 108000}

SourceStatuses == {"missing", "unopenable", "unreadable", "ok"}

Sources ==
    [status : SourceStatuses \ {"ok"}, readings : {[t \in ReadingTimes |-> Absent]}]
        \cup [status : {"ok"}, readings : [ReadingTimes -> RawData]]

TableNames == {"BgReadings", "Treatments"}

CallReadXDrip ==
    /\ kcall = NoCall
    /\ \E n \in 0..MaxSources :
          \E xdrip_paths \in [1..n -> Sources], table_name \in TableNames :
              /\ kcall' = [fn |-> "read_xDrip", table_name |-> table_name,
                           xdrip_paths |-> xdrip_paths]
              /\ kret' = read_xDrip(table_name, xdrip_paths)
    /\ UNCHANGED engineVars

SpecXDrip == EstimatorInit /\ [][CallReadXDrip]_vars

(***************************************************************************)
(* Properties                                                              *)
(***************************************************************************)
StateColumns == {"IOB_novorapid", "IOB_tresiba", "COB"}

BolusFields == {"carb_bolus", "correction_bolus", "extended_bolus"}

DoseFields == BolusFields \cup {"basal", "carbs"}

RECURSIVE SeqSum(_)
SeqSum(s) == IF s = <<>> THEN 0 ELSE Head(s) + SeqSum(Tail(s))

RECURSIVE SetSum(_, _)
SetSum(row, fields) ==
    IF fields = {} THEN 0
    ELSE LET c == CHOOSE x \in fields : TRUE
         IN row[c] + SetSum(row, fields \ {c})

\* the magnitude a sample carries in the given fields: the sum of those
\* that hold a number
Dose(row, fields) == SetSum(row, {c \in fields : ~IsNaN(row[c])})

TimeOf(df, i) == df.rows[i].DateTime_rounded

\* the engine has returned and the caller has done nothing since
Returned == annotated # NoFrame /\ rerun = NoFrame /\ period_df = NoFrame

\* C1: for every elapsed time t <= 0 and every substance kind, both kernel
\* functions (active_insulin, insulin_on_board, carbs_on_board with any
\* total_carbs) return exactly 0.
C1_KernelsZeroAtNonPositiveTime ==
    (/\ kcall.fn # "none"
     /\ kcall.t <= 0
     /\ kcall.fn \in {"active_insulin", "insulin_on_board"} => kcall.type \in InsulinKinds)
        => (~kret.raised /\ kret.value = 0)

\* C2: active_insulin and insulin_on_board raise for a kind other than
\* 'novorapid' and 'tresiba' at every elapsed time, t <= 0 included; no
\* value is returned.
C2_UnknownKindRaises ==
    (/\ kcall.fn \in {"active_insulin", "insulin_on_board"}
     /\ kcall.type \notin InsulinKinds)
        => kret = ValueError

C2_Witness ==
    /\ kcall.fn = "insulin_on_board"
    /\ kcall.type = "lantus"
    /\ kcall.t <= 0
    /\ kret.raised

\* row i of the output lies before every event of the input in the fields
EarlierThanEvents(i, fields) ==
    \A j \in 1..NRows(data_df) :
        Dose(data_df.rows[j], fields) > 0 => TimeOf(annotated, i) < TimeOf(data_df, j)

\* C3: after the engine every value of IOB_novorapid, IOB_tresiba and COB is
\* non-negative, and a sample earlier than the first event of the matching
\* kind (bolus, basal, carbs) has that state exactly zero.
C3_NonNegativeZeroBeforeFirstEvent ==
    annotated # NoFrame =>
        \A i \in 1..NRows(annotated) :
            LET r == annotated.rows[i]
            IN /\ r.IOB_novorapid >= 0 /\ r.IOB_tresiba >= 0 /\ r.COB >= 0
               /\ EarlierThanEvents(i, BolusFields) => r.IOB_novorapid = 0
               /\ EarlierThanEvents(i, {"basal"}) => r.IOB_tresiba = 0
               /\ EarlierThanEvents(i, {"carbs"}) => r.COB = 0

C3_Witness ==
    /\ annotated # NoFrame
    /\ \E i, j \in 1..NRows(annotated) :
          /\ i < j
          /\ EarlierThanEvents(i, {"carbs"})
          /\ EarlierThanEvents(i, BolusFields)
          /\ annotated.rows[i].COB = 0
          /\ annotated.rows[j].COB > 0
          /\ annotated.rows[j].IOB_novorapid > 0

\* the series with the doses of the rows outside S removed
OnlyEvents(df, S) ==
    [df EXCEPT !.rows =
        [j \in 1..NRows(df) |->
            IF j \in S THEN df.rows[j]
            ELSE [c \in DOMAIN df.rows[j] |->
                     IF c \in DoseFields THEN 0 ELSE df.rows[j][c]]]]

\* C4: superposition: for any split of the event rows into two lists A and
\* B (A named by the rows S it takes, B the rest, the first row in B), the
\* state columns of the run on all events equal, sample by sample,
\* the sum of the state columns of the runs on A alone and on B alone.
C4_SuperpositionLinearity ==
    Returned =>
        \A S \in SUBSET (2..NRows(data_df)) :
            \A A \in {calculate_active_insulin_and_carbs_timeseries(OnlyEvents(data_df, S))} :
            \A B \in {calculate_active_insulin_and_carbs_timeseries(
                          OnlyEvents(data_df, (1..NRows(data_df)) \ S))} :
                \A i \in 1..NRows(annotated) : \A c \in StateColumns :
                    annotated.rows[i][c] = A.rows[i][c] + B.rows[i][c]

\* what the bolus of input row j adds to a sample at time t
FastContribution(j, t) ==
    LET m == Dose(data_df.rows[j], BolusFields)
        dt == t - TimeOf(data_df, j)
    IN IF m > 0 /\ 0 < dt /\ dt <= 6 * 60
       THEN insulin_on_board(dt, "novorapid").value * m ELSE 0

\* what the basal dose of input row j adds to a sample at time t
LongContribution(j, t) ==
    LET m == Dose(data_df.rows[j], {"basal"})
        dt == t - TimeOf(data_df, j)
    IN IF m > 0 /\ 0 < dt /\ dt <= 96 * 60
       THEN insulin_on_board(dt, "tresiba").value * m ELSE 0

C4_Witness ==
    /\ annotated # NoFrame
    /\ \E i \in 1..NRows(annotated) : \E j, k \in 1..NRows(data_df) :
          /\ j # k
          /\ FastContribution(j, TimeOf(annotated, i)) > 0
          /\ FastContribution(k, TimeOf(annotated, i)) > 0
          /\ LongContribution(j, TimeOf(annotated, i)) > 0
          /\ LongContribution(k, TimeOf(annotated, i)) > 0

\* C5: idempotence: the engine run on its own output yields the state
\* columns of the first run; nothing is accumulated on the earlier values.
C5_Idempotence ==
    rerun # NoFrame =>
        /\ NRows(rerun) = NRows(annotated)
        /\ \A i \in 1..NRows(rerun) : \A c \in StateColumns :
               rerun.rows[i][c] = annotated.rows[i][c]

C5_Witness ==
    /\ rerun # NoFrame
    /\ \E i \in 1..NRows(rerun) :
          /\ rerun.rows[i].IOB_novorapid > 0
          /\ rerun.rows[i].IOB_tresiba > 0
          /\ rerun.rows[i].COB > 0

\* the input rows that carry carbohydrate
CarbEvents == {j \in 1..NRows(data_df) : Dose(data_df.rows[j], {"carbs"}) > 0}

\* C6: with a single carbohydrate event of mass m > 0, COB at the event's
\* own sample equals m: the whole mass is on board at the instant of
\* ingestion.
C6_FullMassAtIngestion ==
    (annotated # NoFrame /\ Cardinality(CarbEvents) = 1) =>
        \A j \in CarbEvents : \A i \in 1..NRows(annotated) :
            TimeOf(annotated, i) = TimeOf(data_df, j)
                => annotated.rows[i].COB = Dose(data_df.rows[j], {"carbs"}) * SCALE

C8_TotalActiveInsulinColumn ==
    annotated # NoFrame =>
        /\ "total_active_insulin" \in annotated.columns
        /\ \A i \in 1..NRows(annotated) :
               annotated.rows[i].total_active_insulin
                   = annotated.rows[i].IOB_novorapid + annotated.rows[i].IOB_tresiba

\* the value of column c at the sample of time t (sample times are unique)
ValueAt(df, t, c) ==
    LET i == CHOOSE k \in 1..NRows(df) : TimeOf(df, k) = t
    IN df.rows[i][c]

\* column c of the output is new or holds, at some time, another value than
\* the input
Differs(in, out, c) ==
    \/ c \notin in.columns
    \/ \E j \in 1..NRows(in) : ValueAt(out, TimeOf(in, j), c) # in.rows[j][c]

\* the output keeps the input's samples and columns, and only the columns
\* in `written` are new or changed
Frame(in, out, written) ==
    /\ in.columns \subseteq out.columns
    /\ {TimeOf(out, i) : i \in 1..NRows(out)} = {TimeOf(in, j) : j \in 1..NRows(in)}
    /\ NRows(out) = NRows(in)
    /\ \A c \in out.columns : Differs(in, out, c) => c \in written

\* no step changes a table the caller has passed (or will pass) to the
\* engine or to process_period
InputsUntouched ==
    /\ data_df' = data_df
    /\ annotated # NoFrame => annotated' = annotated
    /\ period_df # NoFrame => period_df' = period_df

TotalColumns == {"total_bolus", "total_carbs", "total_basal"}

ZeroFilled(df) ==
    [df EXCEPT !.rows =
        [j \in 1..NRows(df) |->
            [c \in DOMAIN df.rows[j] |->
                IF c \in DoseFields THEN Fillna0(df.rows[j][c]) ELSE df.rows[j][c]]]]

\* C10: a NaN dose or carb field counts as zero: the trajectories equal
\* those of the input with every NaN replaced by 0; a row's event
\* magnitudes are the sums of its non-NaN fields, so a row of NaN and zeros
\* makes no event and a row with a NaN and a positive bolus field does.
C10_NaNIsZero ==
    Returned =>
        /\ \A Z \in {calculate_active_insulin_and_carbs_timeseries(ZeroFilled(data_df))} :
               \A i \in 1..NRows(annotated) : \A c \in StateColumns :
                   annotated.rows[i][c] = Z.rows[i][c]
        /\ \A j \in 1..NRows(data_df) :
               LET t == TimeOf(data_df, j)
               IN /\ ValueAt(annotated, t, "total_bolus") = Dose(data_df.rows[j], BolusFields)
                  /\ ValueAt(annotated, t, "total_basal") = Dose(data_df.rows[j], {"basal"})
                  /\ ValueAt(annotated, t, "total_carbs") = Dose(data_df.rows[j], {"carbs"})

\* a bolus row with a NaN field, and a later sample that holds its insulin
C10_Witness ==
    /\ Returned
    /\ \E j \in 1..NRows(data_df) : \E i \in 1..NRows(annotated) :
          /\ \E c \in BolusFields : IsNaN(data_df.rows[j][c])
          /\ Dose(data_df.rows[j], BolusFields) > 0
          /\ FastContribution(j, TimeOf(annotated, i)) > 0
          /\ annotated.rows[i].IOB_novorapid > 0
    /\ \E j \in 1..NRows(data_df) : \A c \in DoseFields : IsNaN(data_df.rows[j][c])

(***************************************************************************)
(* C11: the engine given a series in which a sample has no timestamp       *)
(***************************************************************************)
HasMissingTimestamp(df) ==
    \E i \in 1..NRows(df) : df.rows[i].DateTime_rounded = NaT

\* C11: if a row of the engine's input has a missing timestamp, the run
\* aborts: no trajectory is returned for that input.
C11_MissingTimestampAborts ==
    HasMissingTimestamp(data_df) => annotated = NoFrame

(***************************************************************************)
(* C17-C20: the period-of-day functions and the estimators                 *)
(***************************************************************************)
\* the hours of each bucket as half-open ranges
BucketHours(period) ==
    CASE period = "morning" -> 7..10
      [] period = "noon" -> 11..14
      [] period = "evening" -> 15..18
      [] period = "before bed" -> 19..22
      [] period = "night" -> {23} \cup 0..6

IsClearanceCall == kcall.fn = "calculate_insulin_clearance"

IsVolumeCall == kcall.fn = "calculate_glucose_volume_distribution"

\* C18: whenever an estimator returns a value, the clearance is within
\* [0.5, 3.0] L/min and the volume within [5, 25] L, whatever the age, sex
\* and height adjustments did before the clamp.
C18_EstimatesWithinBounds ==
    /\ (IsClearanceCall /\ ~kret.raised) =>
          (FINE \div 2 <= kret.value /\ kret.value <= 3 * FINE)
    /\ (IsVolumeCall /\ ~kret.raised) =>
          (5 * SCALE <= kret.value /\ kret.value <= 25 * SCALE)

\* a clearance that the age adjustment brings below the lower bound
C18_Witness ==
    /\ IsClearanceCall
    /\ kcall.method = "height_based"
    /\ kcall.height_cm = 50
    /\ kcall.sex = "female"
    /\ kcall.age_years = 100
    /\ kret = Return(FINE \div 2)

WeightMethods == {"bsa", "allometric", "tbw_based", "bsa_based", "weight_based"}

KnownMethods ==
    IF IsClearanceCall THEN {"height_based", "bsa", "allometric"}
    ELSE {"tbw_based", "bsa_based", "weight_based"}

\* C19: an unknown method name raises in both estimators; a weight-requiring
\* method called without a weight raises instead of computing with a default
\* weight; a call without a height raises as well.
C19_ConfigurationErrorsRaise ==
    (IsClearanceCall \/ IsVolumeCall) =>
        /\ kcall.method \notin KnownMethods => kret.raised
        /\ (kcall.method \in WeightMethods \cap KnownMethods
               /\ kcall.weight_kg \in {None, Omitted}) => kret.raised
        /\ kcall.height_cm \in {None, Omitted} => kret.raised

\* the factor a of the age, in hundredths
AgeFactorPercent(age_years) ==
    IF age_years \in {None, Omitted} \/ age_years <= 40 THEN 100
    ELSE Max(100 - (age_years - 40), 70)

\* clamp(1.2 x (1 + 0.4 x (height - 170)/100) x s x a, 0.5, 3.0), in 1/FINE
HeightBasedFormula(height_cm, sex, age_years) ==
    LET s == IF sex \in {"female", "Female", "FEMALE"} THEN 85 ELSE 100
        a == AgeFactorPercent(age_years)
    IN Clip(((120000 + 480 * (height_cm - 170)) * s * a) \div 100, FINE \div 2, 3 * FINE)

Aggregated == pcall # NoPeriodCall /\ ~grouped.raised

\* the positions in period_df of the samples of the group of aggregate row g
Members(g) ==
    {i \in 1..NRows(period_df) : period_df.rows[i][group_col] = g[group_col]}

\* the group's earliest and latest sample
FirstSample(g) ==
    period_df.rows[CHOOSE i \in Members(g) : \A j \in Members(g) :
                      TimeOf(period_df, i) <= TimeOf(period_df, j)]

LastSample(g) ==
    period_df.rows[CHOOSE i \in Members(g) : \A j \in Members(g) :
                      TimeOf(period_df, i) >= TimeOf(period_df, j)]

\* C12: for every group of process_period's output, also with several
\* groups or an input that is not in chronological order, AoC = the group's
\* summed carbs + COB at the group's first sample - COB at its last sample,
\* and AUC_novorapid, AUC_tresiba = the group's summed dose + IOB at the
\* group's first sample - IOB at its last sample.
C12_MassBalancePerGroup ==
    Aggregated =>
        \A k \in 1..Len(grouped.rows) :
            LET g == grouped.rows[k]
            IN /\ g.AoC = g.total_carbs * SCALE + FirstSample(g).COB - LastSample(g).COB
               /\ g.AUC_novorapid = g.total_bolus * SCALE
                      + FirstSample(g).IOB_novorapid - LastSample(g).IOB_novorapid
               /\ g.AUC_tresiba = g.total_basal * SCALE
                      + FirstSample(g).IOB_tresiba - LastSample(g).IOB_tresiba

\* C13: for every group, period_length is (latest - earliest timestamp of
\* the group) plus the sample interval the call configures, hence positive
\* for a single-sample group and wider on a wider grid.
C13_PeriodLengthAddsConfiguredInterval ==
    Aggregated =>
        \A k \in 1..Len(grouped.rows) :
            LET g == grouped.rows[k]
            IN /\ g.period_length =
                      (LastSample(g).DateTime_rounded - FirstSample(g).DateTime_rounded)
                          + pcall.time_interval
               /\ g.period_length > 0

\* the basal reference of the call
BasalReference ==
    IF pcall.use_period_start_glucose_as_basal
    THEN period_df.rows[1].glucose ELSE pcall.basal_glucose

\* the sum over the group's samples with a glucose reading of
\* F(glucose - basal reference) x the configured sample interval
RECURSIVE GlucoseExcess(_, _)
GlucoseExcess(members, absolute) ==
    IF members = {} THEN 0
    ELSE LET i == CHOOSE x \in members : TRUE
             glucose == period_df.rows[i].glucose
             term == (glucose - BasalReference) * pcall.time_interval
         IN (IF IsNaN(glucose) THEN 0
             ELSE IF absolute THEN Abs(term) ELSE term)
                + GlucoseExcess(members \ {i}, absolute)

\* C14: for every group, AUC_delta_glucose is the sum over the samples with
\* a glucose reading of (glucose - basal reference) x the configured sample
\* interval, AUC_abs_delta_glucose the sum of the absolute values of the
\* same terms; samples without glucose contribute nothing, and
\* |AUC_delta_glucose| <= AUC_abs_delta_glucose.
C14_GlucoseIntegrals ==
    (Aggregated /\ ~IsNaN(BasalReference)) =>
        \A k \in 1..Len(grouped.rows) :
            LET g == grouped.rows[k]
            IN /\ g.AUC_delta_glucose = GlucoseExcess(Members(g), FALSE)
               /\ g.AUC_abs_delta_glucose = GlucoseExcess(Members(g), TRUE)
               /\ Abs(g.AUC_delta_glucose) <= g.AUC_abs_delta_glucose

\* C15: process_period does not raise for a group whose sensitivity
\* denominator is zero and reports an explicit undefined sentinel: no
\* aggregate row ever holds an infinite or a NaN sensitivity.
C15_ZeroDenominatorSentinel ==
    Aggregated =>
        \A k \in 1..Len(grouped.rows) :
            LET g == grouped.rows[k]
            IN /\ g.insulin_sensitivity_article \notin {Inf, NaN}
               /\ g.insulin_sensitivity_Nadia \notin {Inf, NaN}

\* C16: every aggregate row carries insulin_sensitivity_article and
\* insulin_sensitivity_personal, and whenever both are defined
\* article x (AUC_novorapid + AUC_tresiba) = 60 x personal x AUC_novorapid.
C16_BothSensitivitiesNamed ==
    Aggregated =>
        \A k \in 1..Len(grouped.rows) :
            LET g == grouped.rows[k]
            IN /\ {"insulin_sensitivity_article", "insulin_sensitivity_personal"}
                      \subseteq DOMAIN g
               /\ (g.insulin_sensitivity_article \notin {Inf, NaN}
                      /\ g.insulin_sensitivity_personal \notin {Inf, NaN}) =>
                      g.insulin_sensitivity_article * (g.AUC_novorapid + g.AUC_tresiba)
                          = 60 * g.insulin_sensitivity_personal * g.AUC_novorapid

(***************************************************************************)
(* C21-C23, C30: order of the events and of the passes, dose totals of a   *)
(* group, bounds of the state                                              *)
(***************************************************************************)
\* the table the three passes start from
Zeroed == InitStateColumns(SortValues(WithTotals(data_df)))

\* the orders in which the entries of the sequence s can be taken
PermutationsOf(s) ==
    {p \in [1..Len(s) -> {s[i] : i \in 1..Len(s)}] :
        \A i, j \in 1..Len(s) : i # j => p[i] # p[j]}

\* C21: within one kind, the order in which the events are processed does
\* not matter: the per-event step applied to the same events in any
\* permutation yields the table the engine returns.
C21_EventOrderIrrelevant ==
    Returned =>
        \A Z \in {Zeroed} :
            /\ \A p \in PermutationsOf(EventRows(Z, "total_bolus")) :
                   \A R \in {BolusLoop(Z, p, 1)} :
                       \A i \in 1..NRows(annotated) :
                           R.rows[i].IOB_novorapid = annotated.rows[i].IOB_novorapid
            /\ \A p \in PermutationsOf(EventRows(Z, "total_basal")) :
                   \A R \in {BasalLoop(Z, p, 1)} :
                       \A i \in 1..NRows(annotated) :
                           R.rows[i].IOB_tresiba = annotated.rows[i].IOB_tresiba
            /\ \A p \in PermutationsOf(EventRows(Z, "total_carbs")) :
                   \A R \in {CarbLoop(Z, p, 1)} :
                       \A i \in 1..NRows(annotated) :
                           R.rows[i].COB = annotated.rows[i].COB

\* two events of each insulin acting on one later sample, and two meals
C21_Witness ==
    /\ Returned
    /\ Cardinality(CarbEvents) >= 2
    /\ Len(EventRows(Zeroed, "total_bolus")) >= 2
    /\ Len(EventRows(Zeroed, "total_basal")) >= 2
    /\ annotated.rows[NRows(annotated)].IOB_tresiba
          > LongContribution(1, TimeOf(annotated, NRows(annotated)))
    /\ LongContribution(1, TimeOf(annotated, NRows(annotated))) > 0

Pass(df, kind) ==
    CASE kind = "bolus" -> BolusPass(df)
      [] kind = "basal" -> BasalPass(df)
      [] kind = "carbs" -> CarbPass(df)

\* C22: the three passes are independent: run in any order they produce
\* the table the engine returns, the total_active_insulin column included.
C22_PassOrderIrrelevant ==
    Returned =>
        \A Z \in {Zeroed} :
            \A order \in PermutationsOf(<<"bolus", "basal", "carbs">>) :
                Pass(Pass(Pass(Z, order[1]), order[2]), order[3]) = annotated

RECURSIVE MemberSum(_, _)
MemberSum(members, c) ==
    IF members = {} THEN 0
    ELSE LET i == CHOOSE x \in members : TRUE
         IN period_df.rows[i][c] + MemberSum(members \ {i}, c)

\* C23: a group's total_bolus is the sum over the group's rows of the three
\* bolus fields with NaN counted as zero, that is the sum of the engine's
\* per-row total_bolus.
C23_GroupBolusCountsNaNAsZero ==
    Aggregated =>
        \A k \in 1..Len(grouped.rows) :
            grouped.rows[k].total_bolus
                = MemberSum(Members(grouped.rows[k]), "total_bolus")

\* the doses in `fields` given within `window` minutes before time t
DosesWithin(fields, t, window) ==
    SeqSum([j \in 1..NRows(data_df) |->
               IF 0 < t - TimeOf(data_df, j) /\ t - TimeOf(data_df, j) <= window
               THEN Dose(data_df.rows[j], fields) ELSE 0])

\* the latest sample time of the input
Horizon == 96 * 60 + 5

\* C30: after the engine, at every sample IOB_novorapid is at most the sum
\* of the boluses of the preceding 6 h, IOB_tresiba at most the sum of the
\* basal doses of the preceding 96 h, COB at most the sum of the
\* carbohydrate of all strictly earlier events.
C30_BoundedState ==
    annotated # NoFrame =>
        \A i \in 1..NRows(annotated) :
            LET t == TimeOf(annotated, i)
            IN /\ annotated.rows[i].IOB_novorapid
                     <= SCALE * DosesWithin(BolusFields, t, 6 * 60)
               /\ annotated.rows[i].IOB_tresiba
                     <= SCALE * DosesWithin({"basal"}, t, 96 * 60)
               /\ annotated.rows[i].COB <= SCALE * DosesWithin({"carbs"}, t, Horizon)

\* a basal dose whose window has closed at the last sample, and a sample
\* inside the windows holding less than the doses given
C30_Witness ==
    /\ Returned
    /\ NRows(annotated) = 3
    /\ Dose(data_df.rows[1], {"basal"}) > 0
    /\ TimeOf(data_df, 1) = 0
    /\ TimeOf(annotated, 3) = Horizon
    /\ annotated.rows[3].IOB_tresiba < SCALE * DosesWithin({"basal"}, Horizon, 96 * 60)
    /\ annotated.rows[2].IOB_novorapid > 0
    /\ annotated.rows[2].IOB_novorapid
          < SCALE * DosesWithin(BolusFields, TimeOf(annotated, 2), 6 * 60)

(***************************************************************************)
(* C28: row order and repeated timestamps of the engine's input            *)
(***************************************************************************)
\* the table with its rows taken in the order p
Permuted(df, p) == [df EXCEPT !.rows = [i \in 1..NRows(df) |-> df.rows[p[i]]]]

\* rows of a and b at the same time hold the same state
SameStatePerTimestamp(a, b) ==
    \A i \in 1..NRows(a) : \A k \in 1..NRows(b) :
        TimeOf(a, i) = TimeOf(b, k) =>
            \A c \in StateColumns : a.rows[i][c] = b.rows[k][c]

\* C28: for any permutation of the input rows the output is sorted by
\* timestamp ascending, has as many rows as the input and the same state
\* values per timestamp, and output rows that share a timestamp carry
\* equal IOB_novorapid, IOB_tresiba and COB.
C28_RowOrderAndDuplicates ==
    annotated # NoFrame =>
        /\ NRows(annotated) = NRows(data_df)
        /\ \A i \in 1..(NRows(annotated) - 1) :
               TimeOf(annotated, i) <= TimeOf(annotated, i + 1)
        /\ SameStatePerTimestamp(annotated, annotated)
        /\ \A p \in PermutationsOf([i \in 1..NRows(data_df) |-> i]) :
               \A R \in {calculate_active_insulin_and_carbs_timeseries(
                              Permuted(data_df, p))} :
                   /\ NRows(R) = NRows(annotated)
                   /\ \A i \in 1..NRows(R) : TimeOf(R, i) = TimeOf(annotated, i)
                   /\ SameStatePerTimestamp(R, annotated)

\* an unsorted input in which two rows share the time of a meal, a bolus
\* and a basal dose, with a later sample that holds all three states
C28_Witness ==
    /\ annotated # NoFrame
    /\ NRows(data_df) = 3
    /\ TimeOf(data_df, 1) > TimeOf(data_df, 2)
    /\ TimeOf(data_df, 2) = TimeOf(data_df, 3)
    /\ Dose(data_df.rows[2], {"carbs"}) > 0
    /\ Dose(data_df.rows[2], BolusFields) > 0
    /\ Dose(data_df.rows[2], {"basal"}) > 0
    /\ Dose(data_df.rows[3], DoseFields) = 0
    /\ annotated.rows[3].COB > 0
    /\ annotated.rows[3].IOB_novorapid > 0
    /\ annotated.rows[3].IOB_tresiba > 0

(***************************************************************************)
(* C29: the two definitions of calculate_insulin_clearance                 *)
(***************************************************************************)
IsInsulinPyClearanceCall == kcall.fn = "insulin.calculate_insulin_clearance"

AllSupplied ==
    /\ kcall.height_cm # Omitted
    /\ kcall.weight_kg # Omitted
    /\ kcall.age_years # Omitted

\* C29: called with height_cm, weight_kg, age_years, sex and method all
\* supplied, calculate_insulin_clearance of insulin.py and of
\* individualized_constants.py both raise or both return the same value.
C29_ClearanceDefinitionsAgree ==
    /\ (IsInsulinPyClearanceCall /\ AllSupplied) =>
           kret = calculate_insulin_clearance(kcall.height_cm, kcall.weight_kg,
                                              kcall.age_years, kcall.sex, kcall.method)
    /\ (IsClearanceCall /\ AllSupplied) =>
           kret = insulin_calculate_insulin_clearance(kcall.height_cm, kcall.weight_kg,
                                                      kcall.age_years, kcall.sex,
                                                      kcall.method)

\* a call of insulin.py's definition with every argument supplied whose age
\* adjustment is at its floor and whose result is inside the clip bounds
C29_Witness ==
    /\ IsInsulinPyClearanceCall
    /\ AllSupplied
    /\ kcall.method = "bsa"
    /\ kcall.weight_kg # None
    /\ kcall.age_years # None
    /\ kcall.age_years > 70
    /\ ~kret.raised
    /\ kret.value > FINE \div 2
    /\ kret.value < 3 * FINE

\* with an argument omitted the two definitions do differ
C29_DefaultsDiffer ==
    /\ IsInsulinPyClearanceCall
    /\ ~AllSupplied
    /\ kret # calculate_insulin_clearance(kcall.height_cm, kcall.weight_kg,
                                          kcall.age_years, kcall.sex, kcall.method)

(***************************************************************************)
(* C24, C25: the markers of identify_glucose_events                        *)
(***************************************************************************)
IsEventsCall == kcall.fn = "identify_glucose_events"

Marked(e) ==
    {i \in 1..NRows(kret.df_modified) : kret.df_modified.rows[i].event = e}

EventTime(i) == kcall.df_data.rows[i].DateTime_rounded

IsBolusRow(i) ==
    \/ kcall.df_data.rows[i].carb_bolus > 0
    \/ kcall.df_data.rows[i].correction_bolus > 0

PrecedesHighGlucose(i) ==
    \E h \in 1..NRows(kcall.df_data) :
        /\ ~IsNaN(kcall.df_data.rows[h].glucose)
        /\ kcall.df_data.rows[h].glucose > kcall.glucose_threshold
        /\ EventTime(i) >= EventTime(h) - Hours(kcall.lookback_hours)
        /\ EventTime(i) < EventTime(h)

UniqueTimestamps ==
    \A i, j \in 1..NRows(kcall.df_data) : i # j => EventTime(i) # EventTime(j)

\* the rows step 2 marks 'start'
StartsFound ==
    LET started == MarkStarts(kcall.df_data,
                              HighGlucoseMoments(kcall.df_data, kcall.glucose_threshold, 1),
                              1, [i \in 1..NRows(kcall.df_data) |-> "None"], None,
                              kcall.lookback_hours, kcall.min_gap_hours)
    IN {i \in 1..NRows(kcall.df_data) : started[i] = "start"}

\* the time of the next start after s, or of the last sample
PeriodEnd(s) ==
    LET later == {EventTime(i) : i \in {j \in StartsFound : EventTime(j) > EventTime(s)}}
    IN IF later = {} THEN MaxTime(kcall.df_data)
       ELSE CHOOSE t \in later : \A u \in later : t <= u

\* the samples that may end the event started at s
EndCandidates(s) ==
    {i \in 1..NRows(kcall.df_data) :
        /\ ~IsNaN(kcall.df_data.rows[i].glucose)
        /\ ~IsNaN(kcall.df_data.rows[s].glucose)
        /\ kcall.df_data.rows[i].glucose <= kcall.df_data.rows[s].glucose
        /\ EventTime(i) >= EventTime(s) + Hours(kcall.min_duration_hours)
        /\ EventTime(i) < PeriodEnd(s)}

\* the rows marked 'end' from the start s up to the next start
EndsOf(s) ==
    {i \in Marked("end") : EventTime(i) >= EventTime(s) /\ EventTime(i) < PeriodEnd(s)}

\* C25: on unique timestamps every start keeps its marker, has at most one
\* end, the earliest sample with non-missing glucose <= the start's glucose
\* at least min_duration_hours after it and strictly before the next start
\* (or the final timestamp), and there are no more ends than starts.
C25_EndsFollowStarts ==
    (IsEventsCall /\ UniqueTimestamps) =>
        /\ Marked("start") = StartsFound
        /\ Cardinality(Marked("end")) <= Cardinality(Marked("start"))
        /\ \A s \in StartsFound :
               /\ Cardinality(EndsOf(s)) <= 1
               /\ \A e \in EndsOf(s) :
                      /\ e \in EndCandidates(s)
                      /\ \A i \in EndCandidates(s) : EventTime(e) <= EventTime(i)
               /\ EndCandidates(s) # {} => EndsOf(s) # {}

(***************************************************************************)
(* C26: the look-ahead window of analyze_hypoglycemia_treatment            *)
(***************************************************************************)
IsHypoCall == kcall.fn = "analyze_hypoglycemia_treatment"

\* the 24 readings that follow position p, or all that remain
Next24Readings(df, p) == {q \in 1..NRows(df) : q > p /\ q <= p + 24}

\* the row at p is hypoglycemic and not ignored for its IOB
QualifyingHypo(df, p) ==
    /\ ~IsNaN(df.rows[p].glucose)
    /\ df.rows[p].glucose < HYPOGLYCEMIA_THRESHOLD
    /\ df.rows[p].IOB_novorapid <= IOB_AT_START

EpisodesAt(t) ==
    {k \in 1..Len(kret.df_hypo_treatment) : kret.df_hypo_treatment[k].hypo_datetime = t}

\* C26: the window examined for boluses, carbs and peak glucose after a
\* hypoglycemic row is the 24 readings that follow it, or all remaining
\* rows when fewer remain: an episode is reported exactly when that window
\* holds carbs, no bolus and a glucose reading, with the carbs and the peak
\* of that window.
C26_LookAheadIs24Readings ==
    IsHypoCall =>
        \A D \in {SortValues(kcall.data)} :
            \A p \in 1..NRows(D) :
                QualifyingHypo(D, p) =>
                    LET window == Next24Readings(D, p)
                        valid == {q \in window : ~IsNaN(D.rows[q].glucose)}
                        treated == /\ NoBolus(D, window)
                                   /\ SumOver(D, window, "carbs") > 0
                                   /\ valid # {}
                    IN /\ treated <=> EpisodesAt(D.rows[p].DateTime_rounded) # {}
                       /\ \A k \in EpisodesAt(D.rows[p].DateTime_rounded) :
                              /\ kret.df_hypo_treatment[k].carbs_given
                                     = SumOver(D, window, "carbs")
                              /\ \A q \in valid :
                                     D.rows[q].glucose
                                         <= kret.df_hypo_treatment[k].max_glucose_after

(***************************************************************************)
(* C27: read_xDrip on the BgReadings table                                 *)
(***************************************************************************)
IsBgReadingsCall == kcall.fn = "read_xDrip" /\ kcall.table_name = "BgReadings"

\* what the source at position k alone yields: nothing unless it reads
FrameOf(k) ==
    IF kcall.xdrip_paths[k].status = "ok"
    THEN ReadTable(kcall.xdrip_paths[k], "BgReadings", k - 1)
    ELSE <<>>

\* the positions of the sources whose frame has a row at the timestamp b
SourcesWith(b) ==
    {k \in 1..Len(kcall.xdrip_paths) :
        \E j \in 1..Len(FrameOf(k)) : FrameOf(k)[j].DateTime_rounded = b}

ReadingOf(k, b) ==
    LET j == CHOOSE x \in 1..Len(FrameOf(k)) : FrameOf(k)[x].DateTime_rounded = b
    IN FrameOf(k)[j].reading

\* C27: for BgReadings the rows returned have unique ascending
\* DateTime_rounded, a timestamp found in several read sources keeps the
\* reading of the source with the highest index, and a source that is
\* missing or fails to read is skipped: the rows of the others are returned.
C27_OverlapsResolvedSourcesSkipped ==
    IsBgReadingsCall =>
        /\ ~kret.raised
        /\ \A i \in 1..(Len(kret.rows) - 1) :
               kret.rows[i].DateTime_rounded < kret.rows[i + 1].DateTime_rounded
        /\ \A b \in {Floor5Min(t) : t \in ReadingTimes} :
               \A k \in SourcesWith(b) :
                   (\A h \in SourcesWith(b) : h <= k) =>
                       \E i \in 1..Len(kret.rows) :
                           /\ kret.rows[i].DateTime_rounded = b
                           /\ kret.rows[i].reading = ReadingOf(k, b)
        /\ \A i \in 1..Len(kret.rows) : SourcesWith(kret.rows[i].DateTime_rounded) # {}

====
